---- MODULE Spec2Model ----
(***************************************************************************)
(* A model of the inventree-python client: the transport (InvenTreeAPI,    *)
(* src/inventree/api.py) and the model proxy (InventreeObject,             *)
(* src/inventree/base.py).  Every Python method is an operator that maps   *)
(* the object's fields and the server's answer to the new fields, the      *)
(* outcome (a return value or a raised exception) and the HTTP calls made. *)
(***************************************************************************)
EXTENDS Integers, Sequences, FiniteSets, TLC

VARIABLES
    server,   \* what the server answers on /api/, /api/user/me/ and /api/user/token/
    api,      \* the fields of the InvenTreeAPI instance
    result,   \* the outcome of the last operation the caller invoked
    obj,      \* the fields of the entity object the last operation yielded, if any
    disk,     \* the local files the caller's process sees: what is at each path
    handles,  \* the files the process holds open, in the order it opened them
    classes   \* the class attributes that methods assign: MIN_API_VERSION by class

vars == <<server, api, result, obj, disk, handles, classes>>

(***************************************************************************)
(* Python values.  Every value carries a tag t so that values of different *)
(* Python types can be told apart; a str is its sequence of characters.    *)
(***************************************************************************)
None == [t |-> "None", v |-> 0, s |-> <<>>]
I(n) == [t |-> "int", v |-> n, s |-> <<>>]
S(cs) == [t |-> "str", v |-> 0, s |-> cs]
B(b) == [t |-> "bool", b |-> b]
Dict(d) == [t |-> "dict", d |-> d]
List(l) == [t |-> "list", items |-> l]
EmptyDict == Dict(<<>>)
BadJson == [t |-> "bad"]
Unset == [t |-> "unset"]

\* Python truthiness of a value: None, '' and 0 are falsy
Truthy(x) ==
    CASE x.t = "None" -> FALSE
      [] x.t = "str" -> x.s # <<>>
      [] x.t = "int" -> x.v # 0
      [] x.t = "bool" -> x.b
      [] x.t = "dict" -> DOMAIN x.d # {}
      [] x.t = "list" -> x.items # <<>>
      [] OTHER -> TRUE

\* dict.get(key, default)
DictGet(d, k, default) == IF k \in DOMAIN d THEN d[k] ELSE default

(***************************************************************************)
(* int() and str() on the values above.                                    *)
(***************************************************************************)
Digits == <<"0", "1", "2", "3", "4", "5", "6", "7", "8", "9">>

IsDigit(c) == \E i \in 1..10 : Digits[i] = c

DigitVal(c) == (CHOOSE i \in 1..10 : Digits[i] = c) - 1

RECURSIVE lstrip(_)
lstrip(cs) == IF cs # <<>> /\ cs[1] = " " THEN lstrip(Tail(cs)) ELSE cs

RECURSIVE rstrip(_)
rstrip(cs) ==
    IF cs # <<>> /\ cs[Len(cs)] = " " THEN rstrip(SubSeq(cs, 1, Len(cs) - 1)) ELSE cs

strip(cs) == rstrip(lstrip(cs))

RECURSIVE digitsValue(_)
digitsValue(cs) ==
    IF cs = <<>> THEN 0
    ELSE 10 * digitsValue(SubSeq(cs, 1, Len(cs) - 1)) + DigitVal(cs[Len(cs)])

\* int(<str>) once stripped to u, with d what follows the optional sign
intOfDigits(u, d) ==
    IF d # <<>> /\ \A i \in 1..Len(d) : IsDigit(d[i])
    THEN [ok |-> TRUE, err |-> "",
          v |-> IF u[1] = "-" THEN 0 - digitsValue(d) ELSE digitsValue(d)]
    ELSE [ok |-> FALSE, err |-> "ValueError", v |-> 0]

intOfStripped(u) ==
    intOfDigits(u, IF u # <<>> /\ u[1] \in {"+", "-"} THEN Tail(u) ELSE u)

\* int(<str>): surrounding whitespace, an optional sign, then digits only
intOfStr(cs) == intOfStripped(strip(cs))

\* a float: the quantities of the server are decimals, v counts halves
Float(h) == [t |-> "float", v |-> h, s |-> <<>>]

\* the value of a number, in halves
Halves(x) == IF x.t = "int" THEN 2 * x.v ELSE x.v

\* x - y on numbers
minus(x, y) ==
    IF x.t = "int" /\ y.t = "int" THEN I(x.v - y.v) ELSE Float(Halves(x) - Halves(y))

\* min(x, y): the first argument unless the second is smaller
min(x, y) == IF Halves(y) < Halves(x) THEN y ELSE x

\* int(x): an int is itself, a float is truncated, a str is parsed, None is
\* a TypeError
int(x) ==
    CASE x.t = "int" -> [ok |-> TRUE, err |-> "", v |-> x.v]
      [] x.t = "float" -> [ok |-> TRUE, err |-> "",
                           v |-> IF x.v >= 0 THEN x.v \div 2 ELSE 0 - ((0 - x.v) \div 2)]
      [] x.t = "str" -> intOfStr(x.s)
      [] OTHER -> [ok |-> FALSE, err |-> "TypeError", v |-> 0]

RECURSIVE natStr(_)
natStr(n) ==
    IF n < 10 THEN <<Digits[n + 1]>>
    ELSE natStr(n \div 10) \o <<Digits[(n % 10) + 1]>>

\* str(x)
str(x) ==
    CASE x.t = "int" -> IF x.v < 0 THEN <<"-">> \o natStr(0 - x.v) ELSE natStr(x.v)
      [] x.t = "str" -> x.s
      [] OTHER -> <<"N", "o", "n", "e">>

(***************************************************************************)
(* Outcomes of a call: a returned value or a raised exception.  ctx is the *)
(* exception that was being handled when this one was raised.              *)
(***************************************************************************)
NoDetail == [t |-> "none"]

NoCtx == [err |-> "", msg |-> ""]

Return(x) == [kind |-> "return", err |-> "", msg |-> "", ctx |-> NoCtx, detail |-> NoDetail, val |-> x]

Raise(e, m) == [kind |-> "raise", err |-> e, msg |-> m, ctx |-> NoCtx, detail |-> NoDetail, val |-> None]

RaiseFrom(e, m, c) == [kind |-> "raise", err |-> e, msg |-> m, ctx |-> c, detail |-> NoDetail, val |-> None]

RaiseDetail(e, d) == [kind |-> "raise", err |-> e, msg |-> "", ctx |-> NoCtx, detail |-> d, val |-> None]

Raised(o) == o.kind = "raise"

\* the state, the outcome and the HTTP calls of one method call
Res(a, o, c) == [api |-> a, out |-> o, calls |-> c]

(***************************************************************************)
(* HTTP: endpoints, URLs and responses                                     *)
(***************************************************************************)
MIN_SUPPORTED_API_VERSION == 51

\* an endpoint as the caller writes it: fixed path segments, then the
\* characters of a formatted primary key if it names one record, with or
\* without a leading and a trailing slash
Endpoint(lead, segs, trail) ==
    [lead |-> lead, segs |-> segs, pk |-> <<>>, tail |-> <<>>, trail |-> trail]

\* a URL below the host: its path segments, the primary key that follows
\* them and the segments after the key
Url(segs, pk) == [segs |-> segs, pk |-> pk, tail |-> <<>>]

\* self.api_url: <base>/api/
api_url == Url(<<"api">>, <<>>)

\* InvenTreeAPI.constructApiUrl: the leading slash is dropped, the endpoint
\* joined to api_url and a trailing slash added
constructApiUrl(endpoint_url) ==
    [Url(api_url.segs \o endpoint_url.segs, endpoint_url.pk) EXCEPT !.tail = endpoint_url.tail]

Response(status, ctype, body) ==
    [conn |-> "ok", status |-> status, ctype |-> ctype, body |-> body]

\* the request never completed: the connection was refused, or it timed out
\* while connecting (requests' ConnectTimeout is both a ConnectionError and
\* a Timeout) or while reading
Failed(how) == [conn |-> how, status |-> 0, ctype |-> "", body |-> BadJson]

NoResponse == [conn |-> "none", status |-> 0, ctype |-> "", body |-> BadJson]

Call(method, url, auth, data) ==
    [method |-> method, url |-> url, auth |-> auth, data |-> data]

\* str.upper() on the verbs a caller passes
upper(method) ==
    CASE method \in {"get", "Get", "GET"} -> "GET"
      [] method \in {"post", "POST"} -> "POST"
      [] method \in {"put", "PUT"} -> "PUT"
      [] method \in {"patch", "PATCH"} -> "PATCH"
      [] method \in {"delete", "DELETE"} -> "DELETE"
      [] method \in {"options", "OPTIONS"} -> "OPTIONS"
      [] method \in {"head", "HEAD"} -> "HEAD"
      [] OTHER -> method

methods == {"GET", "POST", "PUT", "PATCH", "DELETE", "OPTIONS"}

(***************************************************************************)
(* InvenTreeAPI (src/inventree/api.py)                                     *)
(***************************************************************************)
\* the Authorization a request carries: the token header, else self.auth
authOf(a) == IF a.use_token_auth /\ Truthy(a.token) THEN "token" ELSE a.auth

\* classify with the status test off by one: 300 itself passes
classifyAbove300(a, calls, url, m, resp) ==
    IF resp.conn # "ok"
    THEN Res(a, Raise(IF resp.conn = "refused" THEN "ConnectionError" ELSE "Timeout", ""),
             calls)
    ELSE IF resp.status > 300
    THEN Res(a,
             RaiseDetail("HTTPError",
                         [t |-> "detail", url |-> url, method |-> m,
                          status_code |-> resp.status, body |-> resp.body]),
             calls)
    ELSE IF m = "DELETE" THEN Res(a, Return([t |-> "response", r |-> resp]), calls)
    ELSE IF resp.ctype # "application/json"
    THEN Res(a, Raise("InvalidJSONError", "content_type_not_json"), calls)
    ELSE Res(a, Return([t |-> "response", r |-> resp]), calls)

\* InvenTreeAPI.request, from the response on: the status code, the verb and
\* the content type decide.  The outcome's val is the requests.Response.
classify(a, calls, url, m, resp) ==
    IF resp.conn # "ok"
    THEN Res(a, Raise(IF resp.conn = "refused" THEN "ConnectionError" ELSE "Timeout", ""),
             calls)
    ELSE IF resp.status >= 300
    THEN Res(a,
             RaiseDetail("HTTPError",
                         [t |-> "detail", url |-> url, method |-> m,
                          status_code |-> resp.status, body |-> resp.body]),
             calls)
    ELSE IF m = "DELETE" THEN Res(a, Return([t |-> "response", r |-> resp]), calls)
    ELSE IF resp.ctype # "application/json"
    THEN Res(a, Raise("InvalidJSONError", "content_type_not_json"), calls)
    ELSE Res(a, Return([t |-> "response", r |-> resp]), calls)

\* InvenTreeAPI.request, from the verb's lookup on
dispatch(a, sent, url, m, data, resp) ==
    IF m \notin methods THEN Res(a, Return(None), sent)
    ELSE classify(a, sent \o <<Call(m, url, authOf(a), data)>>, url, m, resp)

\* InvenTreeAPI.request, from the URL construction on: what request() does
\* once self.connected holds
send(a, sent, endpoint, method, data, resp) ==
    dispatch(a, sent, constructApiUrl(endpoint), upper(method), data, resp)

\* InvenTreeAPI.get, after request() has returned r: json.loads of the body
getJson(r) ==
    IF Raised(r.out) THEN r
    ELSE IF r.out.val.t = "None" THEN Res(r.api, Return(None), r.calls)
    ELSE IF r.out.val.r.body.t = "bad" THEN Res(r.api, Return(None), r.calls)
    ELSE Res(r.api, Return(r.out.val.r.body), r.calls)

\* postJson without the test of the status: any answered body counts
postJsonAnyStatus(r) ==
    IF Raised(r.out) THEN r
    ELSE IF r.out.val.t = "None" THEN Res(r.api, Return(None), r.calls)
    ELSE IF r.out.val.r.body.t = "bad" THEN Res(r.api, Return(None), r.calls)
    ELSE Res(r.api, Return(r.out.val.r.body), r.calls)

\* postJson that swallows the HTTPError of a rejected request
postJsonQuiet(r) ==
    IF Raised(r.out) /\ r.out.err = "HTTPError" THEN Res(r.api, Return(None), r.calls)
    ELSE IF Raised(r.out) THEN r
    ELSE IF r.out.val.t = "None" THEN Res(r.api, Return(None), r.calls)
    ELSE IF r.out.val.r.status \notin {200, 201} THEN Res(r.api, Return(None), r.calls)
    ELSE IF r.out.val.r.body.t = "bad" THEN Res(r.api, Return(None), r.calls)
    ELSE Res(r.api, Return(r.out.val.r.body), r.calls)

\* InvenTreeAPI.post, after request() has returned r: only 200 and 201 count
postJson(r) ==
    IF Raised(r.out) THEN r
    ELSE IF r.out.val.t = "None" THEN Res(r.api, Return(None), r.calls)
    ELSE IF r.out.val.r.status \notin {200, 201} THEN Res(r.api, Return(None), r.calls)
    ELSE IF r.out.val.r.body.t = "bad" THEN Res(r.api, Return(None), r.calls)
    ELSE Res(r.api, Return(r.out.val.r.body), r.calls)

\* testServerVersion without the floor: any integer apiVersion is accepted
testServerVersionNoFloor(a, c, api_version) ==
    IF ~api_version.ok
    THEN IF api_version.err = "ValueError"
         THEN Res(a, Raise("ValueError", "invalid_api_version"), c)
         ELSE Res(a, Raise(api_version.err, ""), c)
    ELSE Res([a EXCEPT !.api_version = I(api_version.v)], Return(B(TRUE)), c)

\* InvenTreeAPI.testServer, from the parsed apiVersion on
testServerVersion(a, c, api_version) ==
    IF ~api_version.ok
    THEN IF api_version.err = "ValueError"
         THEN Res(a, Raise("ValueError", "invalid_api_version"), c)
         ELSE Res(a, Raise(api_version.err, ""), c)
    ELSE IF api_version.v < MIN_SUPPORTED_API_VERSION
    THEN Res(a, Raise("ValueError", "api_version_too_old"), c)
    ELSE Res([a EXCEPT !.api_version = I(api_version.v)], Return(B(TRUE)), c)

\* InvenTreeAPI.testServer, from the response on
testServerResponse(a, c, response) ==
    CASE response.conn \in {"refused", "connect_timeout"} -> Res(a, Return(B(FALSE)), c)
      [] response.conn = "read_timeout" -> Res(a, Raise("Timeout", ""), c)
      [] response.status # 200 -> Res(a, Raise("RequestException", "error_code_from_server"), c)
      [] response.body.t # "dict" -> Res(a, Raise("JSONDecodeError", ""), c)
      [] OTHER ->
            testServerVersion([a EXCEPT !.server_details = response.body], c,
                              int(DictGet(response.body.d, "apiVersion", S(<<"1">>))))

\* InvenTreeAPI.testServer: GET <base>/api/ without credentials
testServer(a, srv) ==
    testServerResponse([a EXCEPT !.server_details = None],
                       <<Call("GET", api_url, "none", EmptyDict)>>, srv.root)

UserMe == Endpoint(TRUE, <<"user", "me">>, TRUE)

UserToken == Endpoint(TRUE, <<"user", "token">>, TRUE)

\* InvenTreeAPI.testAuth, once get('/user/me/') has ended as g
testAuthResponse(g) ==
    IF Raised(g.out)
    THEN IF g.out.err = "HTTPError" THEN Res(g.api, Return(B(FALSE)), g.calls) ELSE g
    ELSE IF Truthy(g.api.username) THEN Res(g.api, Return(B(TRUE)), g.calls)
    ELSE IF g.out.val.t # "dict"
    THEN Res(g.api, Raise("TypeError", "not_subscriptable"), g.calls)
    ELSE IF "username" \notin DOMAIN g.out.val.d
    THEN Res(g.api, Raise("KeyError", "username"), g.calls)
    ELSE Res([g.api EXCEPT !.username = g.out.val.d["username"]], Return(B(TRUE)), g.calls)

\* InvenTreeAPI.testAuth: GET /user/me/ with the credentials at hand.  It
\* calls get() only when self.connected holds, so that request() does not
\* connect again.
testAuth(a, sent, srv) ==
    IF ~a.connected THEN Res(a, Return(B(FALSE)), sent)
    ELSE testAuthResponse(getJson(send(a, sent, UserMe, "get", EmptyDict, srv.me)))

\* InvenTreeAPI.requestToken, once get('/user/token/') has ended as g
requestTokenResponse(g) ==
    IF Raised(g.out) THEN Res(g.api, Return(None), g.calls)
    ELSE IF g.out.val.t # "dict"
    THEN Res(g.api, Raise("TypeError", "not_iterable"), g.calls)
    ELSE IF "token" \notin DOMAIN g.out.val.d THEN Res(g.api, Return(None), g.calls)
    ELSE Res([g.api EXCEPT !.token = g.out.val.d["token"]],
             Return(g.out.val.d["token"]), g.calls)

\* InvenTreeAPI.requestToken: GET /user/token/ with basic auth
requestToken(a, sent, srv) ==
    IF ~Truthy(a.username) \/ ~Truthy(a.password)
    THEN Res(a, Raise("AttributeError", "supply_username_and_password"), sent)
    ELSE IF ~a.connected THEN Res(a, Return(B(FALSE)), sent)
    ELSE requestTokenResponse(getJson(send(a, sent, UserToken, "get", EmptyDict, srv.tok)))

\* InvenTreeAPI.connect, once requestToken() has ended as rt: its return
\* value is not looked at
connectToken(rt) == IF Raised(rt.out) THEN rt ELSE Res(rt.api, Return(None), rt.calls)

\* InvenTreeAPI.connect, once testAuth() has ended as ta
connectAuth(ta, srv) ==
    IF Raised(ta.out) THEN ta
    ELSE IF ~ta.out.val.b
    THEN Res(ta.api, Raise("ConnectionError", "authentication_failed"), ta.calls)
    ELSE IF ta.api.use_token_auth /\ ~Truthy(ta.api.token)
    THEN connectToken(requestToken(ta.api, ta.calls, srv))
    ELSE Res(ta.api, Return(None), ta.calls)

\* InvenTreeAPI.connect, once testServer() has ended as ts
connectServer(ts, srv) ==
    IF Raised(ts.out)
    THEN IF ts.out.err = "Timeout" THEN ts
         ELSE Res(ts.api,
                  RaiseFrom("ConnectionRefusedError", "could_not_connect",
                            [err |-> ts.out.err, msg |-> ts.out.msg]),
                  ts.calls)
    ELSE connectAuth(testAuth([ts.api EXCEPT !.connected = ts.out.val.b, !.auth = "basic"],
                              ts.calls, srv),
                     srv)

\* InvenTreeAPI.connect
connect(a, srv) == connectServer(testServer([a EXCEPT !.connected = FALSE], srv), srv)

\* InvenTreeAPI.request, once the connect() it began with has ended as c
connectThen(c, endpoint, method, data, resp) ==
    IF Raised(c.out) THEN c ELSE send(c.api, c.calls, endpoint, method, data, resp)

\* InvenTreeAPI.request: connect first unless connected
request(a, srv, endpoint, method, data, resp) ==
    IF a.connected THEN send(a, <<>>, endpoint, method, data, resp)
    ELSE connectThen(connect(a, srv), endpoint, method, data, resp)

\* InvenTreeAPI.get
get(a, srv, url, resp) == getJson(request(a, srv, url, "get", EmptyDict, resp))

\* InvenTreeAPI.post
post(a, srv, url, data, resp) == postJson(request(a, srv, url, "post", data, resp))

\* InvenTreeAPI.patch: as post(), only 200 and 201 count
patch(a, srv, url, data, resp) == postJson(request(a, srv, url, "patch", data, resp))

\* InvenTreeAPI.put: as post(), only 200 and 201 count
put(a, srv, url, data, resp) == postJson(request(a, srv, url, "put", data, resp))

\* InvenTreeAPI.delete: the response of request(), whatever its status below 300
apiDelete(a, srv, url, resp) == request(a, srv, url, "delete", EmptyDict, resp)

(***************************************************************************)
(* InvenTreeAPI.downloadFile and the local files it sees.  A path is the   *)
(* sequence of its names, an absolute one begins with "/".                 *)
(***************************************************************************)
NoFile == [kind |-> "none", content |-> <<>>]

File(content) == [kind |-> "file", content |-> content]

Dir == [kind |-> "dir", content |-> <<>>]

\* no local file is of interest
NoDisk == <<>>

\* the body of a response that is a file: its chunks
Bytes(chunks) == [t |-> "bytes", s |-> chunks]

\* os.getcwd()
Cwd == <<"/", "home">>

\* os.path.abspath
abspath(path) == IF path # <<>> /\ path[1] = "/" THEN path ELSE Cwd \o path

\* os.path.exists
exists(d, path) == abspath(path) \in DOMAIN d /\ d[abspath(path)].kind # "none"

\* os.path.isdir
isdir(d, path) == abspath(path) \in DOMAIN d /\ d[abspath(path)].kind = "dir"

\* os.path.basename of a URL: what follows its last slash
basename(url) == IF url.trail \/ url.segs = <<>> THEN "" ELSE url.segs[Len(url.segs)]

\* os.path.join(path, name), made absolute: an empty name adds nothing
joined(path, name) == abspath(IF name = "" THEN path ELSE path \o <<name>>)

\* the directory a path lies in exists
inDirectory(d, path) ==
    \/ SubSeq(path, 1, Len(path) - 1) = Cwd
    \/ isdir(d, SubSeq(path, 1, Len(path) - 1))

base_url == Url(<<>>, <<>>)

\* urljoin(self.base_url, url), the leading slash of url dropped
urljoin(base, url) == Url(base.segs \o url.segs, url.pk)

\* the Authorization downloadFile sends: the token header if there is a
\* token, else self.auth
downloadAuth(a) == IF Truthy(a.token) THEN "token" ELSE a.auth

\* 'text/html' in headers['Content-Type'], on the content types of the model
\* ("" stands for a response without the header)
containsHtml(ctype) == ctype \in {"text/html", "text/html; charset=utf-8"}

\* the state, the outcome, the HTTP calls and the files after downloadFile
DRes(a, o, c, d) == [api |-> a, out |-> o, calls |-> c, disk |-> d]

\* downloadFile, from open(destination, 'wb') on: the file is truncated and
\* the chunks are written as they arrive
writeFile(a, d, calls, dest, resp) ==
    IF isdir(d, dest) THEN DRes(a, Raise("IsADirectoryError", "open"), calls, d)
    ELSE IF ~inDirectory(d, dest) THEN DRes(a, Raise("FileNotFoundError", "open"), calls, d)
    ELSE IF resp.conn = "broken"
    THEN DRes(a, Raise("ChunkedEncodingError", "iter_content"), calls,
              [d EXCEPT ![dest] = File(<<>>)])
    ELSE DRes(a, Return(B(TRUE)), calls, [d EXCEPT ![dest] = File(resp.body.s)])

\* received that writes whatever is answered below 300
receivedSavesHtml(a, d, calls, url, dest, resp) ==
    IF resp.conn \notin {"ok", "broken"}
    THEN DRes(a, Raise(IF resp.conn = "refused" THEN "ConnectionError" ELSE "Timeout", ""),
              calls, d)
    ELSE IF resp.status >= 300
    THEN DRes(a,
              RaiseDetail("HTTPError",
                          [t |-> "detail", url |-> url, method |-> "GET",
                           status_code |-> resp.status, body |-> resp.body]),
              calls, d)
    ELSE writeFile(a, d, calls, dest, resp)

\* downloadFile, from the response to requests.get(url, stream=True) on
received(a, d, calls, url, dest, resp) ==
    IF resp.conn \notin {"ok", "broken"}
    THEN DRes(a, Raise(IF resp.conn = "refused" THEN "ConnectionError" ELSE "Timeout", ""),
              calls, d)
    ELSE IF resp.status >= 300
    THEN DRes(a,
              RaiseDetail("HTTPError",
                          [t |-> "detail", url |-> url, method |-> "GET",
                           status_code |-> resp.status, body |-> resp.body]),
              calls, d)
    ELSE IF containsHtml(resp.ctype) THEN DRes(a, Return(B(FALSE)), calls, d)
    ELSE writeFile(a, d, calls, dest, resp)

\* downloadTo that never minds a file in the way
downloadToOverwrites(a, d, url, dest, overwrite, resp) ==
    received(a, d, <<Call("GET", url, downloadAuth(a), EmptyDict)>>, url, dest, resp)

\* downloadFile, once the URL and the destination are known
downloadTo(a, d, url, dest, overwrite, resp) ==
    IF exists(d, dest) /\ ~overwrite
    THEN DRes(a, Raise("FileExistsError", "destination"), <<>>, d)
    ELSE received(a, d, <<Call("GET", url, downloadAuth(a), EmptyDict)>>, url, dest, resp)

\* the file downloadFile writes to: in a directory, the file of the URL's name
destinationOf(d, url, destination) ==
    IF exists(d, destination) /\ isdir(d, destination)
    THEN joined(destination, basename(url))
    ELSE abspath(destination)

\* InvenTreeAPI.downloadFile(url, destination, overwrite=overwrite)
downloadFile(a, d, url, destination, overwrite, resp) ==
    downloadTo(a, d, urljoin(base_url, url), destinationOf(d, url, destination),
               overwrite, resp)

\* InvenTreeAPI.setHostName: the host must be given, with a scheme and a hostname
setHostName(host) ==
    CASE host = "None" -> Raise("AttributeError", "no_host")
      [] host = "noscheme" -> Raise("Exception", "no_scheme")
      [] OTHER -> Return(None)

\* the instance before __init__ has run
NewApi ==
    [state |-> "new", username |-> None, password |-> None, token |-> None,
     use_token_auth |-> TRUE, auth |-> "None", connected |-> FALSE,
     server_details |-> Unset, api_version |-> Unset]

\* InvenTreeAPI.__init__, from the keyword arguments on
initFields(a, srv, doConnect) ==
    IF doConnect THEN connect(a, srv) ELSE Res(a, Return(None), <<>>)

\* InvenTreeAPI.__init__
init(a, srv, host, username, password, token, use_token_auth, doConnect) ==
    IF Raised(setHostName(host)) THEN Res(a, setHostName(host), <<>>)
    ELSE initFields([a EXCEPT !.username = username, !.password = password,
                              !.token = token, !.use_token_auth = use_token_auth,
                              !.auth = "None", !.connected = FALSE],
                    srv, doConnect)

(***************************************************************************)
(* InventreeObject and its subclasses (src/inventree/base.py)              *)
(***************************************************************************)
\* an entity class: its URL, its primary-key field and the API versions it
\* is available in
Part ==
    [name |-> "Part", URL |-> <<"part">>, pkField |-> "pk",
     MIN_API_VERSION |-> None, MAX_API_VERSION |-> None]

InvenTreePlugin ==
    [name |-> "InvenTreePlugin", URL |-> <<"plugins">>, pkField |-> "key",
     MIN_API_VERSION |-> I(197), MAX_API_VERSION |-> None]

\* URL = 'attachment/': the slash leaves an empty segment before the key
Attachment ==
    [name |-> "Attachment", URL |-> <<"attachment", "">>, pkField |-> "pk",
     MIN_API_VERSION |-> I(207), MAX_API_VERSION |-> None]

PurchaseOrder ==
    [name |-> "PurchaseOrder", URL |-> <<"order", "po">>, pkField |-> "pk",
     MIN_API_VERSION |-> None, MAX_API_VERSION |-> None]

PurchaseOrderLineItem ==
    [name |-> "PurchaseOrderLineItem", URL |-> <<"order", "po-line">>, pkField |-> "pk",
     MIN_API_VERSION |-> None, MAX_API_VERSION |-> None]

\* the class PartAttachment: upload() and REQUIRED_KWARGS come with it
PartAttachment ==
    [name |-> "PartAttachment", URL |-> <<"part", "attachment">>, pkField |-> "pk",
     MIN_API_VERSION |-> I(207), MAX_API_VERSION |-> None, REQUIRED_KWARGS |-> {"part"}]

StockItemTestResult ==
    [name |-> "StockItemTestResult", URL |-> <<"stock", "test">>, pkField |-> "pk",
     MIN_API_VERSION |-> None, MAX_API_VERSION |-> None]

MODERN_LABEL_PRINTING_API == 197

LabelTemplate ==
    [name |-> "LabelTemplate", URL |-> <<"label", "template">>, pkField |-> "pk",
     MIN_API_VERSION |-> I(MODERN_LABEL_PRINTING_API), MAX_API_VERSION |-> None]

\* the class attributes as the module defines them
ClassAttributes == [LabelTemplate |-> LabelTemplate.MIN_API_VERSION]

\* the class T with the attributes it has now
Class(T, cls) ==
    IF T.name \in DOMAIN cls THEN [T EXCEPT !.MIN_API_VERSION = cls[T.name]] ELSE T

\* no object: the constructor raised, or the call yields none
NoObj == [t |-> "None"]

\* what a call that yields an object returns
ObjRef == [t |-> "obj"]

\* the fields of an entity object: _url, _api (given or None) and _data
Obj(T, hasApi, url, data) ==
    [t |-> "obj", type |-> T, api |-> hasApi, url |-> url, data |-> data]

\* the state, the outcome, the HTTP calls and the object of one method call
ORes(a, o, c, ob) == [api |-> a, out |-> o, calls |-> c, obj |-> ob]

\* InventreeObject.checkApiVersion; hasApi is FALSE when api is None
checkApiVersion(T, a, hasApi) ==
    IF Truthy(T.MIN_API_VERSION) /\ (~hasApi \/ a.api_version.t = "unset")
    THEN Raise("AttributeError", "api_version")
    ELSE IF Truthy(T.MIN_API_VERSION) /\ T.MIN_API_VERSION.v > a.api_version.v
    THEN Raise("NotImplementedError", "too_old")
    ELSE IF Truthy(T.MAX_API_VERSION) /\ (~hasApi \/ a.api_version.t = "unset")
    THEN Raise("AttributeError", "api_version")
    ELSE IF Truthy(T.MAX_API_VERSION) /\ T.MAX_API_VERSION.v < a.api_version.v
    THEN Raise("NotImplementedError", "too_new")
    ELSE Return(None)

\* the property pk, once int() has been applied to the 'pk' field
pkInt(n) == IF n.ok THEN Return(I(n.v)) ELSE Raise(n.err, "int")

\* InventreeObject.pk: the primary-key field, through int() if it is 'pk'
pkOf(o) ==
    IF o.type.pkField = "pk" THEN pkInt(int(DictGet(o.data, "pk", None)))
    ELSE Return(DictGet(o.data, o.type.pkField, None))

\* InventreeObject.is_valid, once self.pk has been read as p
isValidPk(o, p) ==
    IF Raised(p) THEN p
    ELSE IF p.val.t = "None" THEN Return(B(FALSE))
    ELSE IF DOMAIN o.data = {} THEN Return(B(FALSE))
    ELSE Return(B(TRUE))

\* InventreeObject.is_valid
is_valid(o) == isValidPk(o, pkOf(o))

\* InventreeObject.reload, from is_valid() on: its value is only logged
reloadValid(g, o) ==
    IF Raised(is_valid(o)) THEN ORes(g.api, is_valid(o), g.calls, o)
    ELSE ORes(g.api, Return(None), g.calls, o)

\* reloadData that keeps the data the object has
reloadDataKeeps(o, g) ==
    IF Raised(g.out) THEN ORes(g.api, g.out, g.calls, o)
    ELSE reloadValid(g, o)

\* InventreeObject.reload, once get(self._url) has ended as g
reloadData(o, g) ==
    IF Raised(g.out) THEN ORes(g.api, g.out, g.calls, o)
    ELSE reloadValid(g, IF g.out.val.t = "None" THEN o ELSE [o EXCEPT !.data = g.out.val.d])

\* InventreeObject.reload
reload(o, a, srv, resp) ==
    IF Raised(checkApiVersion(o.type, a, o.api))
    THEN ORes(a, checkApiVersion(o.type, a, o.api), <<>>, o)
    ELSE IF ~o.api THEN ORes(a, Raise("AttributeError", "no_api"), <<>>, o)
    ELSE reloadData(o, get(a, srv, o.url, resp))

\* _url = f"{url}/{pk}/"
ObjUrl(T, pk) ==
    [lead |-> FALSE, segs |-> T.URL, pk |-> str(pk), tail |-> <<>>, trail |-> TRUE]

\* InventreeObject.__init__, once the reload() of an object without data has
\* ended as r: the object exists only if it did not raise
objInitReloaded(r) ==
    IF Raised(r.out) THEN ORes(r.api, r.out, r.calls, NoObj)
    ELSE ORes(r.api, Return(ObjRef), r.calls, r.obj)

\* InventreeObject.__init__, from self._data on
objInitData(o, a, srv, resp) ==
    IF DOMAIN o.data = {} THEN objInitReloaded(reload(o, a, srv, resp))
    ELSE ORes(a, Return(ObjRef), <<>>, o)

\* coercePk with the test of the sign off by one: 0 passes
coercePkAcceptsZero(n) ==
    IF ~n.ok THEN [out |-> Raise("TypeError", "invalid_primary_key"), pk |-> None]
    ELSE IF n.v < 0 THEN [out |-> Raise("ValueError", "pk_must_be_positive"), pk |-> None]
    ELSE [out |-> Return(None), pk |-> I(n.v)]

\* the primary key once int(str(pk).strip()) has ended as n
coercePk(n) ==
    IF ~n.ok THEN [out |-> Raise("TypeError", "invalid_primary_key"), pk |-> None]
    ELSE IF n.v <= 0 THEN [out |-> Raise("ValueError", "pk_must_be_positive"), pk |-> None]
    ELSE [out |-> Return(None), pk |-> I(n.v)]

\* InventreeObject.__init__: the check of the primary key
checkPk(T, pk) ==
    IF T.pkField = "pk" /\ pk.t # "None" THEN coercePk(intOfStr(strip(str(pk))))
    ELSE [out |-> Return(None), pk |-> pk]

\* InventreeObject.__init__, once the primary key has been checked as p
objInitPk(T, a, srv, hasApi, p, data, resp) ==
    IF Raised(p.out) THEN ORes(a, p.out, <<>>, NoObj)
    ELSE objInitData(Obj(T, hasApi, ObjUrl(T, p.pk), IF data.t = "None" THEN <<>> ELSE data.d),
                     a, srv, resp)

\* InventreeObject.__init__(api, pk, data); resp answers the GET of the
\* reload, if there is one
objInit(T, a, srv, hasApi, pk, data, resp) ==
    IF Raised(checkApiVersion(T, a, hasApi))
    THEN ORes(a, checkApiVersion(T, a, hasApi), <<>>, NoObj)
    ELSE objInitPk(T, a, srv, hasApi,
                   checkPk(T, IF pk.t = "None" /\ Truthy(data)
                              THEN DictGet(data.d, T.pkField, None) ELSE pk),
                   data, resp)

\* cls.URL as an endpoint
ClassUrl(T) == Endpoint(FALSE, T.URL, FALSE)

\* the state, the outcome, the HTTP calls and the objects of a list()
LRes(a, o, c, items) == [api |-> a, out |-> o, calls |-> c, items |-> items]

\* InventreeObject.list: the loop over the records, one cls(data=data,
\* api=api) for each record that has the primary-key field
RECURSIVE listItems(_, _, _, _, _, _)
listItems(T, g, srv, records, i, items) ==
    IF i > Len(records) THEN LRes(g.api, Return(ObjRef), g.calls, items)
    ELSE IF T.pkField \notin DOMAIN records[i].d
    THEN listItems(T, g, srv, records, i + 1, items)
    ELSE IF Raised(objInit(T, g.api, srv, TRUE, None, records[i], NoResponse).out)
    THEN LRes(g.api, objInit(T, g.api, srv, TRUE, None, records[i], NoResponse).out,
              g.calls, <<>>)
    ELSE listItems(T, g, srv, records, i + 1,
                   Append(items, objInit(T, g.api, srv, TRUE, None, records[i], NoResponse).obj))

\* listResponse that does not unwrap the envelope: it loops over its keys
listResponseNoUnwrap(T, srv, raise_error, g) ==
    IF Raised(g.out)
    THEN IF g.out.err = "HTTPError" /\ ~raise_error
         THEN LRes(g.api, Return(ObjRef), g.calls, <<>>)
         ELSE LRes(g.api, g.out, g.calls, <<>>)
    ELSE IF g.out.val.t = "None" THEN LRes(g.api, Return(ObjRef), g.calls, <<>>)
    ELSE IF g.out.val.t = "dict" THEN LRes(g.api, Return(ObjRef), g.calls, <<>>)
    ELSE listItems(T, g, srv, g.out.val.items, 1, <<>>)

\* listResponse that never hands the HTTPError on
listResponseQuiet(T, srv, raise_error, g) ==
    IF Raised(g.out)
    THEN IF g.out.err = "HTTPError"
         THEN LRes(g.api, Return(ObjRef), g.calls, <<>>)
         ELSE LRes(g.api, g.out, g.calls, <<>>)
    ELSE IF g.out.val.t = "None" THEN LRes(g.api, Return(ObjRef), g.calls, <<>>)
    ELSE IF g.out.val.t = "dict"
    THEN IF "results" \notin DOMAIN g.out.val.d
         THEN LRes(g.api, Raise("KeyError", "results"), g.calls, <<>>)
         ELSE IF g.out.val.d["results"].t = "None"
         THEN LRes(g.api, Return(ObjRef), g.calls, <<>>)
         ELSE listItems(T, g, srv, g.out.val.d["results"].items, 1, <<>>)
    ELSE listItems(T, g, srv, g.out.val.items, 1, <<>>)

\* InventreeObject.list, once api.get() has ended as g; an envelope whose
\* results are null is looped over by its keys, none of which holds the name
\* of a primary-key field
listResponse(T, srv, raise_error, g) ==
    IF Raised(g.out)
    THEN IF g.out.err = "HTTPError" /\ ~raise_error
         THEN LRes(g.api, Return(ObjRef), g.calls, <<>>)
         ELSE LRes(g.api, g.out, g.calls, <<>>)
    ELSE IF g.out.val.t = "None" THEN LRes(g.api, Return(ObjRef), g.calls, <<>>)
    ELSE IF g.out.val.t = "dict"
    THEN IF "results" \notin DOMAIN g.out.val.d
         THEN LRes(g.api, Raise("KeyError", "results"), g.calls, <<>>)
         ELSE IF g.out.val.d["results"].t = "None"
         THEN LRes(g.api, Return(ObjRef), g.calls, <<>>)
         ELSE listItems(T, g, srv, g.out.val.d["results"].items, 1, <<>>)
    ELSE listItems(T, g, srv, g.out.val.items, 1, <<>>)

\* InventreeObject.list(api, raise_error=...)
list(T, a, srv, raise_error, resp) ==
    IF Raised(checkApiVersion(T, a, TRUE))
    THEN LRes(a, checkApiVersion(T, a, TRUE), <<>>, <<>>)
    ELSE listResponse(T, srv, raise_error, get(a, srv, ClassUrl(T), resp))

\* data.pop(key) if the key is there
DictPop(d, k) == [f \in DOMAIN d \ {k} |-> d[f]]

\* the calls made before r, then r's
After(calls, r) == [r EXCEPT !.calls = calls \o r.calls]

\* createResponse that leaves the description out of the data it keeps
createResponseDropsField(T, srv, p, resp2) ==
    IF Raised(p.out) THEN ORes(p.api, p.out, p.calls, NoObj)
    ELSE IF p.out.val.t = "None" THEN ORes(p.api, Return(None), p.calls, NoObj)
    ELSE After(p.calls, objInit(T, p.api, srv, TRUE, None,
                                Dict(DictPop(p.out.val.d, "description")), resp2))

\* InventreeObject.create, once api.post() has ended as p
createResponse(T, srv, p, resp2) ==
    IF Raised(p.out) THEN ORes(p.api, p.out, p.calls, NoObj)
    ELSE IF p.out.val.t = "None" THEN ORes(p.api, Return(None), p.calls, NoObj)
    ELSE After(p.calls, objInit(T, p.api, srv, TRUE, None, p.out.val, resp2))

\* InventreeObject.create(api, data); resp2 answers the GET of the reload
\* that the constructor makes when the server's answer is empty
create(T, a, srv, data, resp, resp2) ==
    IF Raised(checkApiVersion(T, a, TRUE))
    THEN ORes(a, checkApiVersion(T, a, TRUE), <<>>, NoObj)
    ELSE createResponse(T, srv,
                        post(a, srv, ClassUrl(T), Dict(DictPop(data.d, T.pkField)), resp),
                        resp2)

\* StockItem.adjustStockItems(api, method, items)
adjustStockItems(a, srv, method, items, resp) ==
    IF method \notin {"count", "add", "remove", "transfer", "assign"}
    THEN Res(a, Raise("ValueError", "method_not_supported"), <<>>)
    ELSE post(a, srv, Endpoint(FALSE, <<"stock", method>>, TRUE),
              Dict([items |-> items]), resp)

\* str.lower() on the methods a caller passes to save()
lower(method) ==
    CASE method \in {"patch", "PATCH"} -> "patch"
      [] method \in {"put", "PUT"} -> "put"
      [] method \in {"post", "POST"} -> "post"
      [] OTHER -> method

\* saveResponse that leaves the data as they are when the write is answered
saveResponseKeepsData(o, srv, p, resp2) ==
    IF Raised(p.out) THEN ORes(p.api, p.out, p.calls, o)
    ELSE IF p.out.val.t # "None" THEN ORes(p.api, p.out, p.calls, o)
    ELSE After(p.calls, reload(o, p.api, srv, resp2))

\* InventreeObject.save, once patch() or put() has ended as p: the answer
\* becomes the data, and if there is none the object is reloaded
saveResponse(o, srv, p, resp2) ==
    IF Raised(p.out) THEN ORes(p.api, p.out, p.calls, o)
    ELSE IF p.out.val.t # "None"
    THEN ORes(p.api, p.out, p.calls, [o EXCEPT !.data = p.out.val.d])
    ELSE After(p.calls, reload(o, p.api, srv, resp2))

\* InventreeObject.save, once data is known
saveData(o, a, srv, data, method, resp, resp2) ==
    IF ~o.api THEN ORes(a, Raise("UnboundLocalError", "response"), <<>>, o)
    ELSE IF lower(method) = "patch"
    THEN saveResponse(o, srv, patch(a, srv, o.url, data, resp), resp2)
    ELSE IF lower(method) = "put"
    THEN saveResponse(o, srv, put(a, srv, o.url, data, resp), resp2)
    ELSE ORes(a, Return(None), <<>>, o)

\* InventreeObject.save(data, method=method); resp answers the write and
\* resp2 the GET of the reload, if there is one
save(o, a, srv, data, method, resp, resp2) ==
    IF Raised(checkApiVersion(o.type, a, o.api))
    THEN ORes(a, checkApiVersion(o.type, a, o.api), <<>>, o)
    ELSE saveData(o, a, srv, IF data.t = "None" THEN Dict(o.data) ELSE data, method,
                  resp, resp2)

\* what a method of an object returns, the object as it is afterwards
WithObj(r, o) == ORes(r.api, r.out, r.calls, o)

\* delete that empties the data of the object once the request has returned
deleteClearsData(o, a, srv, resp) ==
    WithObj(apiDelete(a, srv, o.url, resp), [o EXCEPT !.data = EmptyDict.d])

\* InventreeObject.delete
delete(o, a, srv, resp) ==
    IF Raised(checkApiVersion(o.type, a, o.api))
    THEN ORes(a, checkApiVersion(o.type, a, o.api), <<>>, o)
    ELSE IF o.api THEN WithObj(apiDelete(a, srv, o.url, resp), o)
    ELSE ORes(a, Return(None), <<>>, o)

\* obj.<name>: the property pk, else InventreeObject.__getattr__, which
\* reads the data and falls back to the attributes the object does not have
getattr(o, name) ==
    IF name = "pk" THEN pkOf(o)
    ELSE IF name \in DOMAIN o.data THEN Return(o.data[name])
    ELSE Raise("AttributeError", name)

\* InventreeObject.__getitem__
getitem(o, name) ==
    IF name \in DOMAIN o.data THEN Return(o.data[name])
    ELSE Raise("KeyError", name)

\* setitem as a plain dict assigns: an absent key is added
setitemAddsKey(o, name, value) ==
    [out |-> Return(None),
     obj |-> [o EXCEPT !.data = [f \in DOMAIN o.data \cup {name} |->
                                    IF f = name THEN value ELSE o.data[f]]]]

\* InventreeObject.__setitem__: the outcome and the data afterwards
setitem(o, name, value) ==
    IF name \in DOMAIN o.data
    THEN [out |-> Return(None), obj |-> [o EXCEPT !.data[name] = value]]
    ELSE [out |-> Raise("KeyError", name), obj |-> o]

\* the status actions of StatusMixin
Statuses == {"complete", "cancel", "hold", "ship", "issue", "finish"}

\* self.URL + f"/{self.pk}/{status}"
StatusUrl(T, pk, status) ==
    [lead |-> FALSE, segs |-> T.URL, pk |-> str(pk), tail |-> <<status>>, trail |-> FALSE]

\* statusReload that leaves the reload out
statusNoReload(o, srv, doReload, p, resp2) == ORes(p.api, p.out, p.calls, o)

\* StatusMixin._statusupdate, once the POST has ended as p: the reload, and
\* the answer to the POST as the value
statusReload(o, srv, doReload, p, resp2) ==
    IF Raised(p.out) THEN ORes(p.api, p.out, p.calls, o)
    ELSE IF ~doReload THEN ORes(p.api, p.out, p.calls, o)
    ELSE IF Raised(reload(o, p.api, srv, resp2).out)
    THEN After(p.calls, reload(o, p.api, srv, resp2))
    ELSE [After(p.calls, reload(o, p.api, srv, resp2)) EXCEPT !.out = p.out]

\* StatusMixin._statusupdate, once self.pk has been read as pk
statusPost(o, a, srv, status, doReload, data, pk, resp, resp2) ==
    IF Raised(pk) THEN ORes(a, pk, <<>>, o)
    ELSE IF ~o.api THEN ORes(a, Raise("AttributeError", "post"), <<>>, o)
    ELSE statusReload(o, srv, doReload,
                      post(a, srv, StatusUrl(o.type, pk.val, status), data, resp), resp2)

\* _statusupdate without the check of the status: the POST is sent
statusupdateUnchecked(o, a, srv, status, doReload, data, resp, resp2) ==
    statusPost(o, a, srv, status, doReload,
               IF data.t = "None" THEN EmptyDict ELSE data, pkOf(o), resp, resp2)

\* StatusMixin._statusupdate(status, reload=doReload, data=data)
statusupdate(o, a, srv, status, doReload, data, resp, resp2) ==
    IF status \notin Statuses
    THEN ORes(a, Raise("ValueError", "status_not_supported"), <<>>, o)
    ELSE statusPost(o, a, srv, status, doReload,
                    IF data.t = "None" THEN EmptyDict ELSE data, pkOf(o), resp, resp2)

(***************************************************************************)
(* Uploads of local files.  A file name is the path it names; a file       *)
(* object is one the caller has opened.                                    *)
(***************************************************************************)
FileName(path) == [t |-> "str", path |-> path]

FileObject(name) == [t |-> "file", name |-> name]

\* open(path): the new handle is the last of the open ones
opened(h, path) == Append(h, path)

\* close() of the handle that was opened as the i-th
closed(h, i) == SubSeq(h, 1, i - 1) \o SubSeq(h, i + 1, Len(h))

\* d[k] = v on a dict
DictSet(d, k, v) == [f \in DOMAIN d \cup {k} |-> IF f = k THEN v ELSE d[f]]

\* the outcome r of a call, the object it yields, the handles that are open
\* and the class attributes after it
XRes(r, ob, h, cls) ==
    [api |-> r.api, out |-> r.out, calls |-> r.calls, obj |-> ob, handles |-> h,
     classes |-> cls]

\* Attachment.URL as upload() passes it to post()
AttachmentUrl == Endpoint(FALSE, <<"attachment">>, TRUE)

\* Attachment.upload, the post of data and the file; with a file name the
\* file is open - as the last handle of h - until the with block is left
uploadPost(a, srv, h, cls, data, attachment, isName, resp) ==
    XRes(post(a, srv, AttachmentUrl, Dict(DictSet(data, "attachment", attachment)), resp),
         NoObj, IF isName THEN closed(h, Len(h)) ELSE h, cls)

\* Attachment.upload(api, attachment, comment=comment, **kwargs) on class T
upload(T, a, srv, d, h, cls, attachment, comment, kwargs, resp) ==
    IF attachment.t = "str" /\ ~exists(d, attachment.path)
    THEN XRes(Res(a, Raise("FileNotFoundError", "attachment"), <<>>), NoObj, h, cls)
    ELSE IF attachment.t = "str"
    THEN uploadPost(a, srv, opened(h, attachment.path), cls,
                    DictSet(kwargs.d, "comment", comment), attachment, TRUE, resp)
    ELSE uploadPost(a, srv, h, cls, DictSet(kwargs.d, "comment", comment), attachment,
                    FALSE, resp)

\* StockItemTestResult.upload_result, from api.post() on: fo.close() comes
\* after the post has returned
uploadResultPosted(p, h, cls, hasFile) ==
    IF Raised(p.out) THEN XRes(p, NoObj, h, cls)
    ELSE XRes(Res(p.api, Return(B(Truthy(p.out.val))), p.calls), NoObj,
              IF hasFile THEN closed(h, Len(h)) ELSE h, cls)

\* the data upload_result posts
TestResultData(stock_item, test, passed) ==
    [stock_item |-> stock_item, test |-> test, result |-> passed,
     notes |-> S(<<>>), value |-> S(<<>>)]

\* StockItemTestResult.upload_result(api, stock_item, test, result,
\* attachment=attachment)
upload_result(a, srv, d, h, cls, stock_item, test, passed, attachment, resp) ==
    IF attachment.t = "str" /\ exists(d, attachment.path)
    THEN uploadResultPosted(
             post(a, srv, ClassUrl(StockItemTestResult),
                  Dict(DictSet(TestResultData(stock_item, test, passed), "attachment",
                               attachment)), resp),
             opened(h, attachment.path), cls, TRUE)
    ELSE uploadResultPosted(
             post(a, srv, ClassUrl(StockItemTestResult),
                  Dict(TestResultData(stock_item, test, passed)), resp),
             h, cls, FALSE)

\* the key the template file is uploaded under
templateKey(a) ==
    IF a.api_version.v >= MODERN_LABEL_PRINTING_API THEN "template" ELSE "label"

\* LabelFunctions.create, from template_key on: the base create() with the
\* file, and label.close() whatever its outcome
labelCreateFile(T, a, srv, h, cls, data, label, isName, resp, resp2) ==
    IF a.api_version.t # "int"
    THEN XRes(Res(a, Raise("TypeError", "api_version"), <<>>), NoObj, h, cls)
    ELSE XRes(create(Class(T, cls), a, srv, Dict(DictSet(data.d, templateKey(a), label)),
                     resp, resp2),
              create(Class(T, cls), a, srv, Dict(DictSet(data.d, templateKey(a), label)),
                     resp, resp2).obj,
              IF isName THEN closed(h, Len(h)) ELSE h, cls)

\* LabelFunctions.create, once MIN_API_VERSION of the class is assigned
labelCreateOpen(T, a, srv, d, h, cls, data, label, resp, resp2) ==
    IF label.t = "str" /\ ~exists(d, label.path)
    THEN XRes(Res(a, Raise("FileNotFoundError", "label"), <<>>), NoObj, h, cls)
    ELSE IF label.t = "str"
    THEN labelCreateFile(T, a, srv, opened(h, label.path), cls, data, label, TRUE, resp,
                         resp2)
    ELSE labelCreateFile(T, a, srv, h, cls, data, label, FALSE, resp, resp2)

\* LabelFunctions.create(api, data, label) on class T
labelCreate(T, a, srv, d, h, cls, data, label, resp, resp2) ==
    labelCreateOpen(T, a, srv, d, h, [cls EXCEPT ![T.name] = I(156)], data, label, resp,
                    resp2)

(***************************************************************************)
(* LabelPrintingMixin (src/inventree/label.py)                             *)
(***************************************************************************)
\* a local variable that no statement has assigned
Unbound == [t |-> "unbound"]

\* the str that is the URL e
UrlStr(e) == [t |-> "url", e |-> e]

\* an outcome with the local files after it
FRes(x, d) ==
    [api |-> x.api, out |-> x.out, calls |-> x.calls, obj |-> x.obj, handles |-> x.handles,
     classes |-> x.classes, disk |-> d]

\* f'/label/{self.LABELNAME}/{label_id}/print/' of a Part
LabelPrintUrl(label_id) ==
    Endpoint(TRUE, <<"label", "part">> \o natStr(label_id) \o <<"print">>, TRUE)

\* LabelPrintingMixin.saveOutput: in a directory the file is named after the
\* model and the key
saveOutput(o, a, d, output, filename, resp2) ==
    downloadFile(a, d, output,
                 IF exists(d, filename) /\ isdir(d, filename)
                 THEN filename \o <<"Label_part.pdf">> ELSE filename,
                 FALSE, resp2)

\* the outcome of saveOutput as the outcome of printLabelLegacy, calls first
legacySaved(calls, h, cls, s) ==
    FRes(XRes(Res(s.api, s.out, calls \o s.calls), NoObj, h, cls), s.disk)

\* printLabelLegacy, from 'if download_url and destination' on
legacySave(o, a, d, h, cls, calls, response, download_url, destination, resp2) ==
    IF Truthy(download_url) /\ destination.t # "None"
    THEN legacySaved(calls, h, cls,
                     saveOutput(o, a, d, download_url.e, destination.path, resp2))
    ELSE IF response.t = "unbound"
    THEN FRes(XRes(Res(a, Raise("UnboundLocalError", "response"), calls), NoObj, h, cls), d)
    ELSE FRes(XRes(Res(a, Return(response), calls), NoObj, h, cls), d)

\* printLabelLegacy, once self._api.get(URL, params) has ended as g
legacyGot(o, d, h, cls, g, destination, resp2) ==
    IF Raised(g.out) THEN FRes(XRes(g, NoObj, h, cls), d)
    ELSE IF g.out.val.t # "dict"
    THEN FRes(XRes(Res(g.api, Raise("AttributeError", "get"), g.calls), NoObj, h, cls), d)
    ELSE legacySave(o, g.api, d, h, cls, g.calls, g.out.val,
                    DictGet(g.out.val.d, "file", None), destination, resp2)

\* printLabelLegacy, once the template's id is known
legacyPrint(o, a, srv, d, h, cls, label_id, plugin, destination, resp, resp2) ==
    IF plugin.t \notin {"None", "str"}
    THEN FRes(XRes(Res(a, Raise("TypeError", "plugin"), <<>>), NoObj, h, cls), d)
    ELSE IF a.api_version.v < 130 /\ plugin.t = "None"
    THEN legacySave(o, a, d, h, cls, <<>>, Unbound,
                    UrlStr(Endpoint(TRUE, <<"api">> \o LabelPrintUrl(label_id).segs, TRUE)),
                    destination, resp2)
    ELSE legacyGot(o, d, h, cls, get(a, srv, LabelPrintUrl(label_id), resp), destination,
                   resp2)

\* LabelPrintingMixin.printLabelLegacy(label, plugin=plugin,
\* destination=destination) on the Part o; getTemplateId is int() of an id
printLabelLegacy(o, a, srv, d, h, cls, label, plugin, destination, resp, resp2) ==
    IF label.t \notin {"int", "str"}
    THEN FRes(XRes(Res(a, Raise("ValueError", "template"), <<>>), NoObj, h, cls), d)
    ELSE IF ~int(label).ok
    THEN FRes(XRes(Res(a, Raise(int(label).err, "int"), <<>>), NoObj, h, cls), d)
    ELSE legacyPrint(o, a, srv, d, h, cls, int(label).v, plugin, destination, resp, resp2)

(***************************************************************************)
(* The server and the caller's inputs                                      *)
(***************************************************************************)
JSON == "application/json"

HTML == "text/html"

ServerDetails(version) ==
    IF version.t = "absent"
    THEN Dict([server |-> S(<<"InvenTree">>)])
    ELSE Dict([server |-> S(<<"InvenTree">>), apiVersion |-> version])

\* what /api/ may report as apiVersion
RootVersions ==
    {[t |-> "absent"], S(<<"x">>), I(1), I(MIN_SUPPORTED_API_VERSION - 1),
     I(MIN_SUPPORTED_API_VERSION), S(<<"5", "2">>)}

RootResponses ==
    {Failed("refused"), Failed("connect_timeout"), Failed("read_timeout"),
     Response(500, HTML, BadJson), Response(200, JSON, BadJson)}
    \cup {Response(200, JSON, ServerDetails(ver)) : ver \in RootVersions}

MeResponses ==
    {Response(200, JSON, Dict([username |-> S(<<"admin">>)])),
     Response(401, JSON, Dict([detail |-> S(<<"denied">>)])),
     Response(200, JSON, BadJson),
     Failed("read_timeout")}

TokenResponses ==
    {Response(200, JSON, Dict([token |-> S(<<"tokS">>)])),
     Response(200, JSON, Dict([detail |-> S(<<"none">>)])),
     Response(200, JSON, BadJson),
     Response(500, HTML, BadJson)}

\* the answers on /api/ that testServer() accepts
RootOk(r) == ~Raised(testServerResponse(NewApi, <<>>, r).out) /\ r.conn = "ok"

\* the answers on /user/me/ after which testAuth() may return True
MeOk(r) == r.conn = "ok" /\ r.status < 300 /\ r.ctype = JSON

\* /user/me/ is only asked once /api/ has answered well, and /user/token/ only
\* once /user/me/ has: an answer nobody asks for is left at its first value
Servers ==
    {s \in [root : RootResponses, me : MeResponses, tok : TokenResponses] :
        /\ ~RootOk(s.root) => s.me = Response(401, JSON, Dict([detail |-> S(<<"denied">>)]))
        /\ ~(RootOk(s.root) /\ MeOk(s.me)) => s.tok = Response(500, HTML, BadJson)}

Record1 == Dict([pk |-> I(1), name |-> S(<<"a">>)])

\* the answers to a request()
RequestResponses ==
    {Failed("refused"), Failed("read_timeout"),
     Response(200, "application/json; charset=utf-8", Record1),
     Response(200, JSON, BadJson), Response(404, HTML, BadJson)}
    \cup {Response(st, ct, Record1) : st \in {200, 299, 300, 404}, ct \in {JSON, HTML}}

\* the answers to a get()
GetResponses ==
    {Failed("refused"), Failed("read_timeout")}
    \cup {Response(st, ct, b) : st \in {200, 404}, ct \in {JSON, HTML},
                                b \in {Record1, BadJson}}

\* the answers to a post()
PostResponses ==
    {Failed("read_timeout"), Response(200, HTML, Record1)}
    \cup {Response(st, JSON, b) : st \in {200, 201, 204, 300, 400},
                                  b \in {Record1, BadJson}}

RequestMethods == {"get", "POST", "delete", "head"}

PartUrl == Endpoint(FALSE, <<"part">>, FALSE)

Part1Url == Endpoint(TRUE, <<"part", "1">>, TRUE)

NoArgs ==
    [endpoint |-> Endpoint(FALSE, <<>>, FALSE), method |-> "", resp |-> NoResponse,
     T |-> "", pk |-> None, data |-> None, flag |-> FALSE, name |-> "", dest |-> <<>>]

\* whether the call r got as far as sending method to endpoint
Exchanged(r, e, m) ==
    /\ r.calls # <<>>
    /\ r.calls[Len(r.calls)].url = constructApiUrl(e)
    /\ r.calls[Len(r.calls)].method = upper(m)

\* the arguments of a call and, when the call got that far, the server's answer
Args(r, e, m, resp) ==
    [NoArgs EXCEPT !.endpoint = e, !.method = m,
                   !.resp = IF Exchanged(r, e, m) THEN resp ELSE NoResponse]

Result(op, args, r) ==
    [op |-> op, args |-> args, out |-> r.out, calls |-> r.calls, items |-> <<>>]

(***************************************************************************)
(* What a caller can do                                                    *)
(***************************************************************************)
Init ==
    /\ server \in Servers
    /\ api = NewApi
    /\ result = Result("none", NoArgs, Res(NewApi, Return(None), <<>>))
    /\ obj = NoObj
    /\ disk = NoDisk
    /\ handles = <<>>
    /\ classes = ClassAttributes

\* the caller's view after a call on the transport that ended as r
Called(op, args, r) ==
    /\ api' = r.api
    /\ result' = Result(op, args, r)
    /\ UNCHANGED <<server, obj, disk, handles, classes>>

\* the instance exists for the caller only when __init__ returned
Built(r) == [r.api EXCEPT !.state = IF Raised(r.out) THEN "aborted" ELSE "live"]

Constructed(r) ==
    /\ api' = Built(r)
    /\ result' = Result("__init__", NoArgs, r)
    /\ UNCHANGED <<server, obj, disk, handles, classes>>

\* api = InvenTreeAPI(host, username=, password=, token=, use_token_auth=, connect=)
Construct(host, username, password, token, use_token_auth, doConnect) ==
    /\ api.state = "new"
    /\ Constructed(init(api, server, host, username, password, token, use_token_auth,
                        doConnect))

\* api.connect()
Connect ==
    /\ api.state = "live"
    /\ Called("connect", NoArgs, connect(api, server))

\* the caller's view after request(endpoint, method) ended as r
Requested(op, r, endpoint, method, resp) ==
    Called(op, Args(r, endpoint, method, resp), r)

\* api.request(endpoint, method=method)
Request(endpoint, method, resp) ==
    /\ api.state = "live"
    /\ Requested("request", request(api, server, endpoint, method, EmptyDict, resp),
                 endpoint, method, resp)

\* api.get(endpoint)
Get(endpoint, resp) ==
    /\ api.state = "live"
    /\ Requested("get", get(api, server, endpoint, resp), endpoint, "get", resp)

\* api.post(endpoint, data)
Post(endpoint, data, resp) ==
    /\ api.state = "live"
    /\ Requested("post", post(api, server, endpoint, data, resp), endpoint, "post", resp)

Credentials == {<<None, None>>, <<S(<<"admin">>), S(<<"pw">>)>>}

Next ==
    \/ \E host \in {"None", "valid"}, cred \in Credentials,
          token \in {None, S(<<"tokA">>)}, uta \in BOOLEAN, doConnect \in BOOLEAN :
          Construct(host, cred[1], cred[2], token, uta, doConnect)
    \/ Connect
    \/ \E m \in RequestMethods, resp \in RequestResponses : Request(PartUrl, m, resp)
    \/ \E resp \in GetResponses : Get(Part1Url, resp)
    \/ \E resp \in PostResponses : Post(PartUrl, Record1, resp)

Spec == Init /\ [][Next]_vars

(***************************************************************************)
(* What a caller can do with the entity classes, on a transport built for  *)
(* a server that answers /api/ well                                        *)
(***************************************************************************)
Types == {Part, InvenTreePlugin, Attachment, PurchaseOrderLineItem, PurchaseOrder}

\* the classes the caller constructs, lists and creates
NewTypes == {Part, InvenTreePlugin, Attachment}

ListTypes == {Part, InvenTreePlugin}

CreateTypes == {Part, PurchaseOrderLineItem, Attachment}

MeDenied == Response(401, JSON, Dict([detail |-> S(<<"denied">>)]))

\* servers at API versions 197 and 207 that accept the credentials, and one
\* that does not
ObjServers ==
    {[root |-> Response(200, JSON, ServerDetails(I(v))),
      me |-> Response(200, JSON, Dict([username |-> S(<<"admin">>)])),
      tok |-> Response(200, JSON, Dict([token |-> S(<<"tokS">>)]))] : v \in {197, 207}}
    \cup {[root |-> Response(200, JSON, ServerDetails(I(207))),
           me |-> MeDenied, tok |-> Response(500, HTML, BadJson)]}

\* primary keys a caller may pass: not numbers, numbers that are not
\* positive, and positive numbers
NonNumericPks == {S(<<"t", "e", "s", "t">>), S(<<"1", ".", "5">>)}

NonPositivePks == {I(0 - 1), I(0), S(<<" ", "-", "1">>)}

PositivePks == {I(1), S(<<" ", "7", " ">>)}

PkInputs == NonNumericPks \cup NonPositivePks \cup PositivePks

\* a record of type T with primary key k, as the server or the caller writes it
RecordFor(T, k) == Dict((T.pkField :> k) @@ [name |-> S(<<"a">>)])

NoPkRecord == Dict([name |-> S(<<"c">>)])

\* the primary keys of the records the server holds
ServerKeys(T) == IF T.pkField = "pk" THEN {I(1), I(2)} ELSE {S(<<"k", "1">>), S(<<"k", "2">>)}

Key1(T) == IF T.pkField = "pk" THEN I(1) ELSE S(<<"k", "1">>)

\* the arguments <<pk, data>> of a constructor
NewInputs(T) ==
    {<<pk, None>> : pk \in PkInputs}
    \cup {<<None, data>> : data \in {None, EmptyDict, NoPkRecord}}
    \cup {<<None, RecordFor(T, pk)>> : pk \in PkInputs}
    \cup {<<pk, RecordFor(T, I(1))>> : pk \in {S(<<"t", "e", "s", "t">>), I(0), I(2)}}

NotFound == Response(404, JSON, Dict([detail |-> S(<<"not found">>)]))

\* the constructor arguments with which a constructor without a transport
\* is called
NoApiInputs(T) == {<<I(1), None>>, <<None, RecordFor(T, I(1))>>}

\* the answers to the GET of <URL>/<pk>/ that T(api, pk, data) makes if data
\* is empty: the record with that key if the key can name one, or a failure
ReloadResponses(T, pk, data) ==
    IF Truthy(data) THEN {NoResponse}
    ELSE {NotFound, Response(200, JSON, BadJson), Failed("read_timeout")}
         \cup (IF Raised(checkPk(T, pk).out) \/ checkPk(T, pk).pk.t = "None" THEN {}
               ELSE {Response(200, JSON, RecordFor(T, checkPk(T, pk).pk))})

\* the longest listing the server answers with
MaxListLen == 2

ServerRecords(T) == {RecordFor(T, k) : k \in ServerKeys(T)} \cup {NoPkRecord}

Listings(T) == UNION {[1..n -> ServerRecords(T)] : n \in 0..MaxListLen}

\* a paginated envelope around a listing
Envelope(records) == Dict([count |-> I(Len(records)), results |-> List(records)])

\* the answers to the GET of <URL> that are not a listing
NoListResponses ==
    {Response(200, JSON, Dict([count |-> I(0), results |-> None])),
     Response(200, JSON, Dict([detail |-> S(<<"none">>)])),
     Response(200, JSON, BadJson),
     MeDenied, Response(404, HTML, BadJson), Failed("read_timeout")}

\* the answers to the GET of <URL>
ListResponses(T) ==
    {Response(200, JSON, List(l)) : l \in Listings(T)}
    \cup {Response(200, JSON, Envelope(l)) : l \in Listings(T)}
    \cup NoListResponses

\* the arguments <<raise_error, answer>> of a list()
ListInputs(T) ==
    {<<FALSE, resp>> : resp \in ListResponses(T)}
    \cup {<<TRUE, resp>> : resp \in NoListResponses \cup {Response(200, JSON, List(<<>>))}}

\* the answers to the POST of <URL>
CreateResponses(T) ==
    {Response(st, JSON, RecordFor(T, Key1(T))) : st \in {200, 201, 204}}
    \cup {Response(201, JSON, EmptyDict), Response(201, JSON, BadJson),
          Response(204, "", BadJson), Response(201, HTML, RecordFor(T, Key1(T))),
          Response(300, JSON, EmptyDict),
          Response(400, JSON, Dict([name |-> S(<<"required">>)])),
          Failed("read_timeout")}

\* the answers to the GET of <URL>/None/ that the constructor makes when the
\* POST was answered with an empty object
CreateReloadResponses(resp) ==
    IF resp.body = EmptyDict THEN {NotFound, Failed("read_timeout")} ELSE {NoResponse}

\* the answers to the POST of stock/<method>/
AdjustResponses ==
    {Response(201, JSON, Dict([success |-> S(<<"ok">>)])),
     Response(400, JSON, Dict([quantity |-> S(<<"invalid">>)])),
     Response(201, JSON, BadJson), Failed("read_timeout")}

\* the server's answer to the request on T.URL, when the call r got that far
Sent(r, T, resp) ==
    IF r.calls # <<>> /\ r.calls[Len(r.calls)].url.segs = api_url.segs \o T.URL
    THEN resp ELSE NoResponse

InitObj ==
    /\ server \in ObjServers
    /\ \E doConnect \in BOOLEAN :
          api = Built(init(NewApi, server, "valid", S(<<"admin">>), S(<<"pw">>), None,
                           TRUE, doConnect))
    /\ api.state = "live"
    /\ result = Result("none", NoArgs, Res(NewApi, Return(None), <<>>))
    /\ obj = NoObj
    /\ disk = NoDisk
    /\ handles = <<>>
    /\ classes = ClassAttributes

\* the caller's view after a call that yields an object ended as r
Yielded(op, args, r) ==
    /\ api' = r.api
    /\ result' = Result(op, args, r)
    /\ obj' = r.obj
    /\ UNCHANGED <<server, disk, handles, classes>>

\* the caller's view after T(api, pk, data) ended as r
Newed(T, hasApi, pk, data, resp, r) ==
    Yielded("new", [NoArgs EXCEPT !.T = T.name, !.flag = hasApi, !.pk = pk,
                                  !.data = data, !.resp = Sent(r, T, resp)], r)

\* T(api, pk=pk, data=data), or T(None, pk=pk, data=data)
New(T, hasApi, pk, data, resp) ==
    /\ api.state = "live"
    /\ Newed(T, hasApi, pk, data, resp, objInit(T, api, server, hasApi, pk, data, resp))

\* the caller's view after T.list(api) ended as r
Listed(T, raise_error, resp, r) ==
    /\ api' = r.api
    /\ result' = [Result("list", [NoArgs EXCEPT !.T = T.name, !.flag = raise_error,
                                                !.resp = Sent(r, T, resp)], r)
                     EXCEPT !.items = r.items]
    /\ obj' = NoObj
    /\ UNCHANGED <<server, disk, handles, classes>>

\* T.list(api, raise_error=raise_error)
ListObjects(T, raise_error, resp) ==
    /\ api.state = "live"
    /\ Listed(T, raise_error, resp, list(T, api, server, raise_error, resp))

\* the caller's view after T.create(api, data) ended as r
Created(T, data, resp, r) ==
    Yielded("create", [NoArgs EXCEPT !.T = T.name, !.data = data,
                                     !.resp = Sent(r, T, resp)], r)

\* T.create(api, data)
Create(T, data, resp, resp2) ==
    /\ api.state = "live"
    /\ Created(T, data, resp, create(T, api, server, data, resp, resp2))

\* the caller's view after StockItem.adjustStockItems ended as r
Adjusted(method, items, resp, r) ==
    /\ api' = r.api
    /\ result' = Result("adjustStockItems",
                        [Args(r, Endpoint(FALSE, <<"stock", method>>, TRUE), "post", resp)
                            EXCEPT !.data = items], r)
    /\ obj' = NoObj
    /\ UNCHANGED <<server, disk, handles, classes>>

\* StockItem.adjustStockItems(api, method, items)
AdjustStock(method, items, resp) ==
    /\ api.state = "live"
    /\ Adjusted(method, items, resp, adjustStockItems(api, server, method, items, resp))

NextObj ==
    \/ \E T \in NewTypes : \E a \in NewInputs(T) :
          \E resp \in ReloadResponses(T, a[1], a[2]) : New(T, TRUE, a[1], a[2], resp)
    \/ \E T \in NewTypes : \E a \in NoApiInputs(T) :
          New(T, FALSE, a[1], a[2], NoResponse)
    \/ \E T \in ListTypes : \E a \in ListInputs(T) : ListObjects(T, a[1], a[2])
    \/ \E T \in CreateTypes : \E data \in {NoPkRecord, RecordFor(T, Key1(T))} :
          \E resp \in CreateResponses(T) : \E resp2 \in CreateReloadResponses(resp) :
             Create(T, data, resp, resp2)
    \/ \E method \in {"count", "add", "teleport"}, resp \in AdjustResponses :
          AdjustStock(method, List(<<Dict([pk |-> I(1), quantity |-> I(0 - 1)])>>), resp)

SpecObj == InitObj /\ [][NextObj]_vars

(***************************************************************************)
(* What a caller can do with one entity object, on a server that keeps     *)
(* the records: the purchase orders, with the fields pk, reference and     *)
(* description                                                             *)
(***************************************************************************)
\* the server keeps the records with the keys 1..MaxKeys
MaxKeys == 2

Absent == [t |-> "absent"]

\* a value the server refuses for a field
Blank == S(<<>>)

\* the status codes of an order: pending and complete
PENDING == I(10)

COMPLETE == I(30)

\* an order as the server creates it: pending
Order(k, reference, description) ==
    Dict([pk |-> I(k), reference |-> reference, description |-> description,
          status |-> PENDING])

\* the server's answer and its records afterwards
Served(resp, db) == [resp |-> resp, db |-> db]

\* the key a URL names, 0 if it names none of a record the server keeps
KeyOf(db, url) ==
    IF intOfStr(url.pk).ok /\ intOfStr(url.pk).v \in DOMAIN db
    THEN IF db[intOfStr(url.pk).v].t = "dict" THEN intOfStr(url.pk).v ELSE 0
    ELSE 0

\* the server on GET <URL>/<pk>/
serveGet(db, url) ==
    IF KeyOf(db, url) = 0 THEN Served(NotFound, db)
    ELSE Served(Response(200, JSON, db[KeyOf(db, url)]), db)

Refused(data) == \E f \in DOMAIN data.d : data.d[f] = Blank

BadRequest == Response(400, JSON, Dict([detail |-> S(<<"invalid">>)]))

\* the record rec with the fields that data gives, the key and the status -
\* which are read-only - excepted
Merged(rec, data) ==
    Dict([f \in DOMAIN rec.d |->
            IF f \in DOMAIN data.d /\ f \notin {"pk", "status"} THEN data.d[f]
            ELSE rec.d[f]])

\* the server on PATCH or PUT <URL>/<pk>/ with data
serveWrite(db, url, data) ==
    IF KeyOf(db, url) = 0 THEN Served(NotFound, db)
    ELSE IF Refused(data) THEN Served(BadRequest, db)
    ELSE Served(Response(200, JSON, Merged(db[KeyOf(db, url)], data)),
                [db EXCEPT ![KeyOf(db, url)] = Merged(db[KeyOf(db, url)], data)])

FreeKeys(db) == {k \in DOMAIN db : db[k].t = "absent"}

\* the server on POST <URL> with data: the record gets the lowest free key
\* and the server's value for a field that is not given
serveCreate(db, data, k) ==
    IF Refused(data) \/ "reference" \notin DOMAIN data.d THEN Served(BadRequest, db)
    ELSE Served(Response(201, JSON,
                         Order(k, data.d["reference"],
                               DictGet(data.d, "description", S(<<"a">>)))),
                [db EXCEPT ![k] = Order(k, data.d["reference"],
                                        DictGet(data.d, "description", S(<<"a">>)))])

\* the server on DELETE <URL>/<pk>/
serveDelete(db, url) ==
    IF KeyOf(db, url) = 0 THEN Served(NotFound, db)
    ELSE Served(Response(204, "", BadJson), [db EXCEPT ![KeyOf(db, url)] = Absent])

\* the server on POST <URL>/<pk>/complete: a pending order becomes complete,
\* a complete one is refused
serveStatus(db, url) ==
    IF KeyOf(db, url) = 0 THEN Served(NotFound, db)
    ELSE IF db[KeyOf(db, url)].d["status"] = COMPLETE THEN Served(BadRequest, db)
    ELSE Served(Response(201, JSON, EmptyDict),
                [db EXCEPT ![KeyOf(db, url)].d["status"] = COMPLETE])

Faults == {"none", "timeout", "garbled"}

\* what reaches the client of the answer s to a request made on the records
\* db: the answer, nothing in time - the request is lost -, or an answer
\* whose body cannot be read
Faulty(fault, db, s) ==
    CASE fault = "timeout" -> Served(Failed("read_timeout"), db)
      [] fault = "garbled" -> Served(Response(s.resp.status, JSON, BadJson), s.db)
      [] OTHER -> s

DbServers ==
    {[root |-> Response(200, JSON, ServerDetails(I(207))),
      me |-> Response(200, JSON, Dict([username |-> S(<<"admin">>)])),
      tok |-> Response(200, JSON, Dict([token |-> S(<<"tokS">>)])),
      db |-> [k \in 1..MaxKeys |-> IF k = 1 THEN Order(1, S(<<"a">>), S(<<"a">>)) ELSE Absent]]}

InitDb ==
    /\ server \in DbServers
    /\ api = Built(init(NewApi, server, "valid", S(<<"admin">>), S(<<"pw">>), None,
                        TRUE, TRUE))
    /\ result = Result("none", NoArgs, Res(NewApi, Return(None), <<>>))
    /\ obj = NoObj
    /\ disk = NoDisk
    /\ handles = <<>>
    /\ classes = ClassAttributes

\* the call r sent a request with the verb m
Wrote(r, m) == \E i \in 1..Len(r.calls) : r.calls[i].method = m

\* the caller's view after a call r whose request, if it was sent, the server
\* answered as s
Served1(op, args, r, m, s) ==
    /\ api' = r.api
    /\ result' = Result(op, [args EXCEPT !.T = PurchaseOrder.name,
                                         !.resp = IF Wrote(r, m) THEN s.resp ELSE NoResponse], r)
    /\ obj' = r.obj
    /\ server' = [server EXCEPT !.db = IF Wrote(r, m) THEN s.db ELSE @]
    /\ UNCHANGED <<disk, handles, classes>>

\* PurchaseOrder.create(api, data), answered as s
DbCreated(data, s) ==
    Served1("create", [NoArgs EXCEPT !.data = data],
            create(PurchaseOrder, api, server, data, s.resp, NoResponse), "POST", s)

DbCreate(data, fault) ==
    /\ FreeKeys(server.db) # {}
    /\ \E k \in FreeKeys(server.db) :
          /\ \A j \in FreeKeys(server.db) : k <= j
          /\ DbCreated(data, Faulty(fault, server.db, serveCreate(server.db, data, k)))

\* PurchaseOrder(api, pk=pk), answered as s
DbNewed(pk, s) ==
    Served1("new", [NoArgs EXCEPT !.pk = pk, !.flag = TRUE],
            objInit(PurchaseOrder, api, server, TRUE, pk, None, s.resp), "GET", s)

DbNew(pk, fault) ==
    /\ api.state = "live"
    /\ DbNewed(pk, Faulty(fault, server.db,
                          serveGet(server.db,
                                   ObjUrl(PurchaseOrder, checkPk(PurchaseOrder, pk).pk))))

\* obj.reload(), answered as s
Reloaded(s) == Served1("reload", NoArgs, reload(obj, api, server, s.resp), "GET", s)

Reload(fault) ==
    /\ obj # NoObj
    /\ Reloaded(Faulty(fault, server.db, serveGet(server.db, obj.url)))

\* obj.save(data, method=method), answered as s; the reload that follows a
\* write without an answer is answered from the records as they are then
Saved(data, method, s) ==
    Served1("save", [NoArgs EXCEPT !.data = data, !.method = method],
            save(obj, api, server, data, method, s.resp, serveGet(s.db, obj.url).resp),
            upper(method), s)

Save(data, method, fault) ==
    /\ obj # NoObj
    /\ Saved(data, method,
             Faulty(fault, server.db,
                    serveWrite(server.db, obj.url,
                               IF data.t = "None" THEN Dict(obj.data) ELSE data)))

\* obj.delete(), answered as s
Deleted(s) == Served1("delete", NoArgs, delete(obj, api, server, s.resp), "DELETE", s)

Delete(fault) ==
    /\ obj # NoObj
    /\ Deleted(Faulty(fault, server.db, serveDelete(server.db, obj.url)))

\* the caller's view after a read of a field ended as out
Read(op, name, out) ==
    /\ result' = Result(op, [NoArgs EXCEPT !.T = PurchaseOrder.name, !.name = name],
                        Res(api, out, <<>>))
    /\ UNCHANGED <<server, api, obj, disk, handles, classes>>

\* obj.<name>
GetAttr(name) == obj # NoObj /\ Read("getattr", name, getattr(obj, name))

\* obj[name]
GetItem(name) == obj # NoObj /\ Read("getitem", name, getitem(obj, name))

\* the caller's view after obj[name] = value ended as r
Assigned(name, value, r) ==
    /\ result' = Result("setitem", [NoArgs EXCEPT !.T = PurchaseOrder.name, !.name = name,
                                                  !.data = value],
                        Res(api, r.out, <<>>))
    /\ obj' = r.obj
    /\ UNCHANGED <<server, api, disk, handles, classes>>

\* obj[name] = value
SetItem(name, value) == obj # NoObj /\ Assigned(name, value, setitem(obj, name, value))

\* obj._statusupdate(status, reload=doReload), answered as s; the reload is
\* answered from the records as they are then
StatusUpdated(status, doReload, s) ==
    Served1("_statusupdate", [NoArgs EXCEPT !.method = status, !.flag = doReload],
            statusupdate(obj, api, server, status, doReload, None, s.resp,
                         serveGet(s.db, obj.url).resp),
            "POST", s)

StatusUpdate(status, doReload, fault) ==
    /\ obj # NoObj
    /\ StatusUpdated(status, doReload,
                     Faulty(fault, server.db, serveStatus(server.db, obj.url)))

\* the fields the caller reads and assigns: two the records have, one they
\* do not
FieldNames == {"reference", "supplier"}

\* what the caller passes to save(): <<data, method, fault of the server>>
SaveInputs ==
    {<<data, "PATCH", fault>> :
        data \in {None, Dict([reference |-> S(<<"b">>)])}, fault \in Faults}
    \cup {<<Dict([description |-> Blank]), "PATCH", "none">>,
          <<None, "put", "none">>, <<None, "post", "none">>}

\* what the caller passes to _statusupdate():
\* <<status, reload, fault of the server>>
StatusInputs ==
    {<<"complete", doReload, fault>> : doReload \in BOOLEAN, fault \in {"none", "garbled"}}
    \cup {<<"complete", TRUE, "timeout">>,
          <<"teleport", TRUE, "none">>, <<"Complete", FALSE, "none">>}

\* what the caller passes to create(), and the fault of the server
CreateInputs ==
    {<<Dict([reference |-> S(<<"b">>)]), fault>> : fault \in Faults}
    \cup {<<Dict([description |-> S(<<"b">>)]), "none">>}

\* the key the caller constructs an order with, and the fault of the server
NewKeys ==
    {<<k, "none">> : k \in 1..(MaxKeys + 1)} \cup {<<1, "timeout">>, <<1, "garbled">>}

NextDb ==
    \/ \E a \in CreateInputs : DbCreate(a[1], a[2])
    \/ \E a \in NewKeys : DbNew(I(a[1]), a[2])
    \/ \E fault \in Faults : Reload(fault)
    \/ \E a \in SaveInputs : Save(a[1], a[2], a[3])
    \/ \E fault \in {"none", "timeout"} : Delete(fault)
    \/ \E name \in FieldNames \cup {"pk"} : GetAttr(name)
    \/ \E name \in FieldNames : GetItem(name)
    \/ \E name \in FieldNames : SetItem(name, S(<<"b">>))
    \/ \E a \in StatusInputs : StatusUpdate(a[1], a[2], a[3])

SpecDb == InitDb /\ [][NextDb]_vars

(***************************************************************************)
(* What a caller can do with downloadFile, on the files of one working     *)
(* directory                                                               *)
(***************************************************************************)
OutPdf == Cwd \o <<"out.pdf">>

Downloads == Cwd \o <<"dir">>

PartPdf == Downloads \o <<"part.pdf">>

\* the files before the first download
Disks ==
    {[p \in {OutPdf, Downloads, PartPdf} |->
         IF p = Downloads THEN Dir ELSE IF p = OutPdf THEN out ELSE part] :
        out \in {NoFile, File(<<"old">>)}, part \in {NoFile, File(<<"old">>)}}

PdfUrl == Endpoint(TRUE, <<"media", "part.pdf">>, FALSE)

Pdf == Response(200, "application/pdf", Bytes(<<"new">>))

LoginPage == Bytes(<<"login">>)

\* what the server answers to the GET of a file
DownloadResponses ==
    {Pdf,
     Response(200, "", Bytes(<<"new">>)),
     Response(200, HTML, LoginPage),
     Response(200, "text/html; charset=utf-8", LoginPage),
     Response(404, JSON, Bytes(<<"none">>)),
     Response(403, HTML, LoginPage),
     Failed("refused"),
     [Pdf EXCEPT !.conn = "broken"]}

\* what the caller passes to downloadFile and what the server answers:
\* <<url, destination, overwrite, response>>
DownloadInputs ==
    {<<PdfUrl, dest, overwrite, resp>> :
        dest \in {<<"out.pdf">>, <<"dir">>}, overwrite \in BOOLEAN, resp \in DownloadResponses}
    \cup {<<Endpoint(FALSE, <<"media", "part.pdf">>, FALSE), OutPdf, overwrite, Pdf>> :
            overwrite \in BOOLEAN}
    \cup {<<Endpoint(FALSE, <<"media">>, TRUE), <<"dir">>, overwrite, Pdf>> :
            overwrite \in BOOLEAN}
    \cup {<<PdfUrl, <<"nodir", "part.pdf">>, FALSE, Pdf>>}

InitFile ==
    /\ server \in DbServers
    /\ \E doConnect \in BOOLEAN :
          api = Built(init(NewApi, server, "valid", S(<<"admin">>), S(<<"pw">>), None,
                           TRUE, doConnect))
    /\ result = Result("none", NoArgs, Res(NewApi, Return(None), <<>>))
    /\ obj = NoObj
    /\ disk \in Disks
    /\ handles = <<>>
    /\ classes = ClassAttributes

\* the caller's view after downloadFile ended as r
Downloaded(url, destination, overwrite, resp, r) ==
    /\ api' = r.api
    /\ result' = Result("downloadFile",
                        [NoArgs EXCEPT !.endpoint = url, !.dest = destination,
                                       !.flag = overwrite,
                                       !.resp = IF r.calls = <<>> THEN NoResponse ELSE resp],
                        r)
    /\ disk' = r.disk
    /\ UNCHANGED <<server, obj, handles, classes>>

\* api.downloadFile(url, destination, overwrite=overwrite)
Download(url, destination, overwrite, resp) ==
    /\ api.state = "live"
    /\ Downloaded(url, destination, overwrite, resp,
                  downloadFile(api, disk, url, destination, overwrite, resp))

NextFile == \E a \in DownloadInputs : Download(a[1], a[2], a[3], a[4])

SpecFile == InitFile /\ [][NextFile]_vars

(***************************************************************************)
(* StockItem (src/inventree/stock.py)                                      *)
(***************************************************************************)
StockItem ==
    [name |-> "StockItem", URL |-> <<"stock">>, pkField |-> "pk",
     MIN_API_VERSION |-> None, MAX_API_VERSION |-> None]

\* url = f"stock/{self.pk}/install/"
InstallUrl(pk) ==
    [lead |-> FALSE, segs |-> StockItem.URL, pk |-> str(pk), tail |-> <<"install">>,
     trail |-> TRUE]

\* StockItem.installStock, from kwargs['stock_item'] = item on
installSend(o, a, srv, h, cls, item, kwargs, resp) ==
    IF Raised(pkOf(o)) THEN XRes(Res(a, pkOf(o), <<>>), NoObj, h, cls)
    ELSE XRes(post(a, srv, InstallUrl(pkOf(o).val),
                   Dict(DictSet(kwargs, "stock_item", item)), resp),
              NoObj, h, cls)

\* StockItem.installStock, from the test of the API version on: 'quantity'
\* is set below 148 and popped otherwise
installQuantity(o, a, srv, h, cls, item, quantity, kwargs, resp) ==
    IF a.api_version.t # "int"
    THEN XRes(Res(a, Raise("TypeError", "api_version"), <<>>), NoObj, h, cls)
    ELSE IF a.api_version.v >= 148
    THEN installSend(o, a, srv, h, cls, item,
                     DictSet(kwargs, "quantity", DictGet(kwargs, "quantity", quantity)),
                     resp)
    ELSE IF "quantity" \notin DOMAIN kwargs
    THEN XRes(Res(a, Raise("KeyError", "quantity"), <<>>), NoObj, h, cls)
    ELSE installSend(o, a, srv, h, cls, item, DictPop(kwargs, "quantity"), resp)

\* StockItem.installStock(item, **kwargs): item is a StockItem or an id
installStock(o, a, srv, h, cls, item, kwargs, resp) ==
    IF item.t = "obj" /\ item.type.name = StockItem.name
    THEN IF Raised(getattr(item, "quantity"))
         THEN XRes(Res(a, getattr(item, "quantity"), <<>>), NoObj, h, cls)
         ELSE IF Raised(pkOf(item)) THEN XRes(Res(a, pkOf(item), <<>>), NoObj, h, cls)
         ELSE installQuantity(o, a, srv, h, cls, pkOf(item).val,
                              DictGet(kwargs.d, "quantity", getattr(item, "quantity").val),
                              kwargs.d, resp)
    ELSE installQuantity(o, a, srv, h, cls, item, DictGet(kwargs.d, "quantity", I(1)),
                         kwargs.d, resp)

(***************************************************************************)
(* PurchaseOrder (src/inventree/purchase_order.py)                         *)
(***************************************************************************)
\* URL = f"{self.URL}/{self.pk}/receive/"
ReceiveUrl(pk) ==
    [lead |-> FALSE, segs |-> PurchaseOrder.URL, pk |-> str(pk), tail |-> <<"receive">>,
     trail |-> TRUE]

\* location_id: location.pk, and int(location) when that raises
locationId(location) ==
    IF location.t = "obj" /\ ~Raised(pkOf(location)) THEN pkOf(location)
    ELSE IF location.t = "obj" THEN Raise("TypeError", "int")
    ELSE pkInt(int(location))

\* the entry receiveAll makes for the line item li
ReceiveEntry(li, status, location_id) ==
    Dict([line_item |-> pkOf(li).val, supplier_part |-> li.data["part"],
          quantity |-> minus(li.data["quantity"], li.data["received"]),
          status |-> status, location |-> location_id])

\* whether reading li.quantity, li.received, li.pk and li.part raises
EntryRaises(li) ==
    \/ Raised(getattr(li, "quantity")) \/ Raised(getattr(li, "received"))
    \/ li.data["quantity"].t \notin {"int", "float"}
    \/ li.data["received"].t \notin {"int", "float"}

\* what reading the fields of li raises
EntryError(li) ==
    IF Raised(getattr(li, "quantity")) THEN getattr(li, "quantity")
    ELSE IF Raised(getattr(li, "received")) THEN getattr(li, "received")
    ELSE Raise("TypeError", "unsupported_operand")

\* the loop of receiveAll that appends every line item, received or not
RECURSIVE receiveEveryLine(_, _, _, _, _)
receiveEveryLine(lines, i, status, location_id, items) ==
    IF i > Len(lines) THEN Return(List(items))
    ELSE IF EntryRaises(lines[i]) THEN EntryError(lines[i])
    ELSE receiveEveryLine(lines, i + 1, status, location_id,
                          Append(items, ReceiveEntry(lines[i], status, location_id)))

\* PurchaseOrder.receiveAll, the loop over the line items
RECURSIVE receiveItems(_, _, _, _, _)
receiveItems(lines, i, status, location_id, items) ==
    IF i > Len(lines) THEN Return(List(items))
    ELSE IF EntryRaises(lines[i]) THEN EntryError(lines[i])
    ELSE IF Halves(minus(lines[i].data["quantity"], lines[i].data["received"])) > 0
    THEN IF Raised(pkOf(lines[i])) THEN pkOf(lines[i])
         ELSE IF Raised(getattr(lines[i], "part")) THEN getattr(lines[i], "part")
         ELSE receiveItems(lines, i + 1, status, location_id,
                           Append(items, ReceiveEntry(lines[i], status, location_id)))
    ELSE receiveItems(lines, i + 1, status, location_id, items)

\* response = self._api.post(...); self.reload(); return response
postReload(o, srv, p, resp) ==
    IF Raised(p.out) THEN ORes(p.api, p.out, p.calls, o)
    ELSE IF Raised(reload(o, p.api, srv, resp).out)
    THEN After(p.calls, reload(o, p.api, srv, resp))
    ELSE [After(p.calls, reload(o, p.api, srv, resp)) EXCEPT !.out = p.out]

\* PurchaseOrder.receiveAll, once the loop has ended as items
receivePost(o, srv, l, items, location_id, resp2, resp3) ==
    IF Raised(items) THEN ORes(l.api, items, l.calls, o)
    ELSE IF Len(items.val.items) < 1 THEN ORes(l.api, Return(None), l.calls, o)
    ELSE After(l.calls,
               postReload(o, srv,
                          post(l.api, srv, ReceiveUrl(pkOf(o).val),
                               Dict([items |-> items.val, location |-> location_id]),
                               resp2),
                          resp3))

\* PurchaseOrder.receiveAll, once getLineItems() has ended as l
receiveListed(o, srv, l, location_id, status, resp2, resp3) ==
    IF Raised(l.out) THEN ORes(l.api, l.out, l.calls, o)
    ELSE receivePost(o, srv, l, receiveItems(l.items, 1, status, location_id, <<>>),
                     location_id, resp2, resp3)

\* PurchaseOrder.receiveAll(location, status=status); resp answers the
\* listing of the line items, resp2 the POST and resp3 the reload
receiveAll(o, a, srv, location, status, resp, resp2, resp3) ==
    IF Raised(locationId(location)) THEN ORes(a, locationId(location), <<>>, o)
    ELSE IF Raised(pkOf(o)) THEN ORes(a, pkOf(o), <<>>, o)
    ELSE receiveListed(o, srv, list(PurchaseOrderLineItem, a, srv, FALSE, resp),
                       locationId(location).val, status, resp2, resp3)

(***************************************************************************)
(* SalesOrder, its line items and shipments (src/inventree/sales_order.py) *)
(***************************************************************************)
SalesOrder ==
    [name |-> "SalesOrder", URL |-> <<"order", "so">>, pkField |-> "pk",
     MIN_API_VERSION |-> None, MAX_API_VERSION |-> None]

SalesOrderLineItem ==
    [name |-> "SalesOrderLineItem", URL |-> <<"order", "so-line">>, pkField |-> "pk",
     MIN_API_VERSION |-> None, MAX_API_VERSION |-> None]

SalesOrderShipment ==
    [name |-> "SalesOrderShipment", URL |-> <<"order", "so", "shipment">>, pkField |-> "pk",
     MIN_API_VERSION |-> None, MAX_API_VERSION |-> None]

\* url = f'order/so/{self.getOrder().pk}/allocate'
AllocateUrl(pk) ==
    [lead |-> FALSE, segs |-> SalesOrder.URL, pk |-> str(pk), tail |-> <<"allocate">>,
     trail |-> FALSE]

\* whether o.<name> is a number
NumberAttr(o, name) ==
    /\ ~Raised(getattr(o, name))
    /\ getattr(o, name).val.t \in {"int", "float"}

\* what reading the number o.<name> raises when it is none
NumberError(o, name) ==
    IF Raised(getattr(o, name)) THEN getattr(o, name)
    ELSE Raise("TypeError", "unsupported_operand")

\* SI.quantity - SI.allocated
unallocated(si) == minus(si.data["quantity"], si.data["allocated"])

\* thisitem
AllocateEntry(o, si, quantity) ==
    Dict([line_item |-> pkOf(o).val, quantity |-> quantity, stock_item |-> pkOf(si).val])

\* the loop of allocateToShipment that takes all a stock item has, whatever
\* is required
RECURSIVE allocateAll(_, _, _, _, _)
allocateAll(o, stockitems, i, required_amount, items) ==
    IF i > Len(stockitems) THEN Return(List(items))
    ELSE IF Halves(required_amount) <= 0
    THEN allocateAll(o, stockitems, i + 1, required_amount, items)
    ELSE IF ~NumberAttr(stockitems[i], "quantity")
    THEN NumberError(stockitems[i], "quantity")
    ELSE IF ~NumberAttr(stockitems[i], "allocated")
    THEN NumberError(stockitems[i], "allocated")
    ELSE IF Halves(unallocated(stockitems[i])) > 0
    THEN allocateAll(o, stockitems, i + 1,
                     minus(required_amount, unallocated(stockitems[i])),
                     Append(items,
                            AllocateEntry(o, stockitems[i], unallocated(stockitems[i]))))
    ELSE allocateAll(o, stockitems, i + 1, required_amount, items)

\* SalesOrderLineItem.allocateToShipment, the loop over the stock items
RECURSIVE allocateLoop(_, _, _, _, _)
allocateLoop(o, stockitems, i, required_amount, items) ==
    IF i > Len(stockitems) THEN Return(List(items))
    ELSE IF Halves(required_amount) <= 0
    THEN allocateLoop(o, stockitems, i + 1, required_amount, items)
    ELSE IF ~NumberAttr(stockitems[i], "quantity")
    THEN NumberError(stockitems[i], "quantity")
    ELSE IF ~NumberAttr(stockitems[i], "allocated")
    THEN NumberError(stockitems[i], "allocated")
    ELSE IF Halves(unallocated(stockitems[i])) > 0
    THEN IF Raised(pkOf(o)) THEN pkOf(o)
         ELSE IF Raised(pkOf(stockitems[i])) THEN pkOf(stockitems[i])
         ELSE allocateLoop(o, stockitems, i + 1,
                           minus(required_amount,
                                 min(required_amount, unallocated(stockitems[i]))),
                           Append(items,
                                  AllocateEntry(o, stockitems[i],
                                                min(required_amount,
                                                    unallocated(stockitems[i])))))
    ELSE allocateLoop(o, stockitems, i + 1, required_amount, items)

\* SalesOrderShipment.allocateItems, once getOrder() has ended as c
allocateOrdered(sh, srv, c, items, rs) ==
    IF Raised(c.out) THEN ORes(c.api, c.out, c.calls, sh)
    ELSE IF Raised(pkOf(c.obj)) THEN ORes(c.api, pkOf(c.obj), c.calls, sh)
    ELSE IF Raised(pkOf(sh)) THEN ORes(c.api, pkOf(sh), c.calls, sh)
    ELSE After(c.calls,
               postReload(sh, srv,
                          post(c.api, srv, AllocateUrl(pkOf(c.obj).val),
                               Dict([items |-> List(items), shipment |-> pkOf(sh).val]),
                               rs.post),
                          rs.reload))

\* SalesOrderShipment.allocateItems(items); rs.order answers the GET of the
\* order, rs.post the POST and rs.reload the reload of the shipment
allocateItems(sh, a, srv, items, rs) ==
    IF Raised(getattr(sh, "order")) THEN ORes(a, getattr(sh, "order"), <<>>, sh)
    ELSE allocateOrdered(sh, srv,
                         objInit(SalesOrder, a, srv, TRUE, sh.data["order"], None, rs.order),
                         items, rs)

\* required_amount
requiredAmount(o, quantity) ==
    IF quantity.t = "None"
    THEN IF ~NumberAttr(o, "quantity") THEN NumberError(o, "quantity")
         ELSE IF ~NumberAttr(o, "allocated") THEN NumberError(o, "allocated")
         ELSE IF ~NumberAttr(o, "available_stock") THEN NumberError(o, "available_stock")
         ELSE Return(min(minus(o.data["quantity"], o.data["allocated"]),
                         o.data["available_stock"]))
    ELSE IF int(quantity).ok THEN Return(I(int(quantity).v))
    ELSE IF int(quantity).err = "ValueError"
    THEN Raise("ValueError", "quantity_must_be_convertible")
    ELSE Raise(int(quantity).err, "int")

\* allocateToShipment, once the loop has ended as items
allocateFound(o, srv, sh, l, items, rs) ==
    IF Raised(items) THEN ORes(l.api, items, l.calls, sh)
    ELSE IF Len(items.val.items) > 0
    THEN After(l.calls, allocateItems(sh, l.api, srv, items.val.items, rs))
    ELSE ORes(l.api, Return(None), l.calls, sh)

\* allocateToShipment, once the stock items are there as l.items
allocateOffered(o, srv, sh, l, quantity, rs) ==
    IF Raised(l.out) THEN ORes(l.api, l.out, l.calls, sh)
    ELSE IF Raised(requiredAmount(o, quantity))
    THEN ORes(l.api, requiredAmount(o, quantity), l.calls, sh)
    ELSE allocateFound(o, srv, sh, l,
                       allocateLoop(o, l.items, 1, requiredAmount(o, quantity).val, <<>>),
                       rs)

\* Part.getStockItems(), once the Part has been constructed as c
stockOfPart(c, srv, rs) ==
    IF Raised(c.out) THEN LRes(c.api, c.out, c.calls, <<>>)
    ELSE IF Raised(pkOf(c.obj)) THEN LRes(c.api, pkOf(c.obj), c.calls, <<>>)
    ELSE After(c.calls, list(StockItem, c.api, srv, FALSE, rs.stock))

\* self.getPart().getStockItems(...); rs.part answers the GET of the part
\* and rs.stock the listing of the stock items
getStockItems(o, a, srv, rs) ==
    IF Raised(getattr(o, "part")) THEN LRes(a, getattr(o, "part"), <<>>, <<>>)
    ELSE stockOfPart(objInit(Part, a, srv, TRUE, o.data["part"], None, rs.part), srv, rs)

\* SalesOrderLineItem.allocateToShipment(shipment, stockitems, quantity)
allocateToShipment(o, a, srv, sh, stockitems, quantity, rs) ==
    IF stockitems.t = "None"
    THEN allocateOffered(o, srv, sh, getStockItems(o, a, srv, rs), quantity, rs)
    ELSE allocateOffered(o, srv, sh, LRes(a, Return(ObjRef), <<>>, stockitems.items),
                         quantity, rs)

(***************************************************************************)
(* What a caller can do with the operations of the entity classes that     *)
(* upload files, print labels and post to the order and stock endpoints    *)
(***************************************************************************)
\* the API versions of the servers
OpsVersions == {100, 147, 170, 207}

OpsServers ==
    {[root |-> Response(200, JSON, ServerDetails(I(v))),
      me |-> Response(200, JSON, Dict([username |-> S(<<"admin">>)])),
      tok |-> Response(200, JSON, Dict([token |-> S(<<"tokS">>)]))] : v \in OpsVersions}

TestFile == Cwd \o <<"test.txt">>

LabelPdf == Cwd \o <<"label.pdf">>

\* the local files: test.txt is there, label.pdf is not
OpsDisk == [p \in {TestFile, LabelPdf} |-> IF p = TestFile THEN File(<<"data">>) ELSE NoFile]

\* the handles the process may hold open at once
MaxHandles == 2

InitOps ==
    /\ server \in OpsServers
    /\ api = Built(init(NewApi, server, "valid", S(<<"admin">>), S(<<"pw">>), None,
                        TRUE, TRUE))
    /\ result = Result("none", NoArgs, Res(NewApi, Return(None), <<>>))
    /\ obj = NoObj
    /\ disk = OpsDisk
    /\ handles = <<>>
    /\ classes = ClassAttributes

\* the caller's view after an operation ended as r
Operated(op, args, resp, r) ==
    /\ api' = r.api
    /\ result' = Result(op, [args EXCEPT !.resp = IF r.calls = <<>> THEN NoResponse ELSE resp],
                        r)
    /\ obj' = r.obj
    /\ handles' = r.handles
    /\ classes' = r.classes
    /\ UNCHANGED <<server, disk>>

\* the caller's view after an operation that may write local files ended as r
OperatedOnFiles(op, args, resp, r) ==
    /\ api' = r.api
    /\ result' = Result(op, [args EXCEPT !.resp = IF r.calls = <<>> THEN NoResponse ELSE resp],
                        r)
    /\ obj' = r.obj
    /\ handles' = r.handles
    /\ classes' = r.classes
    /\ disk' = r.disk
    /\ UNCHANGED server

\* the files a caller names or passes
Attachments == {FileName(<<"test.txt">>), FileName(<<"none.txt">>), FileObject("mem")}

\* the path of a file name, nothing for a file object
PathOf(f) == IF f.t = "str" THEN f.path ELSE <<>>

\* what the server answers to an upload
UploadResponses ==
    {Response(201, JSON, Dict([pk |-> I(1)])), BadRequest, Failed("refused")}

\* what the caller passes to upload(): <<class, attachment, kwargs>>
UploadInputs ==
    {<<PartAttachment, attachment, kwargs>> :
        attachment \in Attachments, kwargs \in {EmptyDict, Dict([part |-> I(1)])}}
    \cup {<<Attachment, FileName(<<"test.txt">>), EmptyDict>>}

\* T.upload(api, attachment, **kwargs)
Upload(T, attachment, kwargs, resp) ==
    /\ api.state = "live"
    /\ Operated("upload",
                [NoArgs EXCEPT !.T = T.name, !.dest = PathOf(attachment), !.data = kwargs,
                               !.flag = attachment.t = "str"],
                resp,
                upload(T, api, server, disk, handles, classes, attachment, S(<<>>), kwargs,
                       resp))

\* StockItemTestResult.upload_result(api, 1, 'a', True, attachment=attachment)
UploadResult(attachment, resp) ==
    /\ Len(handles) < MaxHandles
    /\ Operated("upload_result",
                [NoArgs EXCEPT !.T = StockItemTestResult.name, !.dest = PathOf(attachment),
                               !.flag = attachment.t = "str"],
                resp,
                upload_result(api, server, disk, handles, classes, I(1), S(<<"a">>),
                              B(TRUE), attachment, resp))

\* what the server answers to the POST of a template
TemplateResponses ==
    {Response(201, JSON, Dict([pk |-> I(1), name |-> S(<<"a">>)])), BadRequest}

\* LabelTemplate.create(api, data, label)
LabelCreate(data, label, resp) ==
    /\ api.state = "live"
    /\ Operated("label_create",
                [NoArgs EXCEPT !.T = LabelTemplate.name, !.dest = PathOf(label),
                               !.data = data, !.flag = label.t = "str"],
                resp,
                labelCreate(LabelTemplate, api, server, disk, handles, classes, data, label,
                            resp, NoResponse))

\* LabelTemplate.list(api), answered with an empty listing
LabelList ==
    /\ api.state = "live"
    /\ Operated("list", [NoArgs EXCEPT !.T = LabelTemplate.name],
                Response(200, JSON, List(<<>>)),
                XRes(list(Class(LabelTemplate, classes), api, server, FALSE,
                          Response(200, JSON, List(<<>>))),
                     NoObj, handles, classes))

\* the Part with the key 1
PartOne == Obj(Part, TRUE, ObjUrl(Part, I(1)), [pk |-> I(1), name |-> S(<<"a">>)])

\* what the server answers to the GET that prints a label
PrintResponses ==
    {Response(200, JSON, Dict([file |-> UrlStr(PdfUrl)])),
     Response(200, JSON, Dict([success |-> B(TRUE)])),
     Response(200, JSON, BadJson),
     BadRequest}

\* what the caller passes to printLabelLegacy: <<label, plugin, destination>>
PrintInputs ==
    {<<I(1), plugin, destination>> :
        plugin \in {None, S(<<"p">>)},
        destination \in {None, FileName(<<"label.pdf">>), FileName(<<"test.txt">>)}}
    \cup {<<I(1), I(2), None>>, <<S(<<"x">>), None, None>>, <<None, None, None>>}

\* part.printLabelLegacy(label, plugin=plugin, destination=destination)
PrintLabelLegacy(label, plugin, destination, resp) ==
    /\ api.state = "live"
    /\ OperatedOnFiles("printLabelLegacy",
                       [NoArgs EXCEPT !.T = Part.name, !.pk = label, !.data = plugin,
                                      !.dest = PathOf(destination),
                                      !.flag = destination.t = "str"],
                       resp,
                       printLabelLegacy(PartOne, api, server, disk, handles, classes, label,
                                        plugin, destination, resp, Pdf))

\* the StockItem the caller installs into, and the one that is installed
ParentStock == Obj(StockItem, TRUE, ObjUrl(StockItem, I(1)), [pk |-> I(1), quantity |-> I(1)])

ChildStock == Obj(StockItem, TRUE, ObjUrl(StockItem, I(2)), [pk |-> I(2), quantity |-> I(4)])

\* what the caller passes to installStock: <<item, kwargs>>
InstallInputs ==
    {<<item, kwargs>> :
        item \in {I(2), ChildStock},
        kwargs \in {EmptyDict, Dict([quantity |-> I(3)]), Dict([notes |-> S(<<"n">>)])}}

\* what the server answers to the install request
InstallResponses == {Response(201, JSON, EmptyDict), BadRequest}

\* parent_stock.installStock(item, **kwargs)
InstallStock(item, kwargs, resp) ==
    /\ api.state = "live"
    /\ Operated("installStock",
                [NoArgs EXCEPT !.T = StockItem.name, !.pk = item, !.data = kwargs], resp,
                installStock(ParentStock, api, server, handles, classes, item, kwargs, resp))

NextOps ==
    \/ \E a \in InstallInputs, resp \in InstallResponses : InstallStock(a[1], a[2], resp)
    \/ \E a \in UploadInputs, resp \in UploadResponses : Upload(a[1], a[2], a[3], resp)
    \/ \E attachment \in {None, FileName(<<"test.txt">>), FileName(<<"none.txt">>)},
          resp \in UploadResponses : UploadResult(attachment, resp)
    \/ \E label \in Attachments, resp \in TemplateResponses :
          LabelCreate(Dict([name |-> S(<<"a">>)]), label, resp)
    \/ LabelList
    \/ \E a \in PrintInputs, resp \in PrintResponses :
          PrintLabelLegacy(a[1], a[2], a[3], resp)

SpecOps == InitOps /\ [][NextOps]_vars

(***************************************************************************)
(* What a caller can do with a purchase order and a sales order line: the  *)
(* server holds the line items and the stock, and answers from them        *)
(***************************************************************************)
\* the line items an order may have
MaxLines == 2

\* a line item of the purchase order on the server; quantity and received
\* count halves
PoLine(k, ordered, got) ==
    [pk |-> k, part |-> 7, quantity |-> ordered, received |-> got]

\* what a line item may start as: <<quantity, received>>
PoShapes == {<<4, 4>>, <<3, 0>>, <<2, 3>>, <<4, 1>>}

\* the line items the purchase order may start with
PoLines ==
    UNION {{[i \in 1..n |-> PoLine(i, f[i][1], f[i][2])] : f \in [1..n -> PoShapes]} :
              n \in 0..MaxLines}

\* the record the server sends for a line item
PoLineRecord(l) ==
    Dict([pk |-> I(l.pk), part |-> I(l.part), quantity |-> Float(l.quantity),
          received |-> Float(l.received)])

\* the listing of the line items
PoListing(lines) == Response(200, JSON, List([i \in 1..Len(lines) |-> PoLineRecord(lines[i])]))

\* the purchase order the caller holds, and the server's record of it
PoRecord == [pk |-> I(1), reference |-> S(<<"a">>)]

PoOne == Obj(PurchaseOrder, TRUE, ObjUrl(PurchaseOrder, I(1)), PoRecord)

\* a StockLocation as the caller may pass it
StockLocation ==
    [name |-> "StockLocation", URL |-> <<"stock", "location">>, pkField |-> "pk",
     MIN_API_VERSION |-> None, MAX_API_VERSION |-> None]

LocationOne == Obj(StockLocation, TRUE, ObjUrl(StockLocation, I(3)), [pk |-> I(3)])

\* the quantity the entries of a receive request hold for the line k
RECURSIVE ReceivedFor(_, _, _)
ReceivedFor(entries, i, k) ==
    IF i > Len(entries) THEN 0
    ELSE (IF entries[i].d["line_item"] = I(k) THEN Halves(entries[i].d["quantity"]) ELSE 0)
         + ReceivedFor(entries, i + 1, k)

\* the line items once the server has taken the receive request
AfterReceive(lines, entries) ==
    [i \in 1..Len(lines) |->
        [lines[i] EXCEPT !.received = @ + ReceivedFor(entries, 1, lines[i].pk)]]

\* whether the call r sent a receive request that the server took
Took(r, fault) ==
    /\ fault = "none"
    /\ Len(r.calls) >= 2
    /\ r.calls[2].method = "POST"

InitOrder ==
    /\ \E lines \in PoLines :
          server = [root |-> Response(200, JSON, ServerDetails(I(207))),
                    me |-> Response(200, JSON, Dict([username |-> S(<<"admin">>)])),
                    tok |-> Response(200, JSON, Dict([token |-> S(<<"tokS">>)])),
                    polines |-> lines]
    /\ api = Built(init(NewApi, server, "valid", S(<<"admin">>), S(<<"pw">>), None,
                        TRUE, TRUE))
    /\ result = Result("none", NoArgs, Res(NewApi, Return(None), <<>>))
    /\ obj = PoOne
    /\ disk = NoDisk
    /\ handles = <<>>
    /\ classes = ClassAttributes

\* the caller's view and the server after receiveAll() ended as r
ReceivedAll(args, fault, r) ==
    /\ api' = r.api
    /\ result' = Result("receiveAll", args, r)
    /\ obj' = r.obj
    /\ server' = IF Took(r, fault)
                 THEN [server EXCEPT !.polines =
                           AfterReceive(server.polines, r.calls[2].data.d["items"].items)]
                 ELSE server
    /\ UNCHANGED <<disk, handles, classes>>

\* the faults of the server: the listing fails, or the request is rejected
OrderFaults == {"none", "listing", "rejected"}

\* order.receiveAll(location)
ReceiveAll(location, fault) ==
    /\ obj.t = "obj"
    /\ ReceivedAll([NoArgs EXCEPT !.T = PurchaseOrder.name, !.pk = location, !.name = fault],
                   fault,
                   receiveAll(obj, api, server, location, I(10),
                              IF fault = "listing" THEN Response(500, HTML, BadJson)
                              ELSE PoListing(server.polines),
                              IF fault = "rejected" THEN BadRequest
                              ELSE Response(201, JSON, Dict([success |-> B(TRUE)])),
                              Response(200, JSON, Dict(PoRecord))))

\* a delivery is added to the order: the line k is ordered once more
PoOrderMore(k) ==
    /\ k \in 1..Len(server.polines)
    /\ server.polines[k].quantity < 4
    /\ server' = [server EXCEPT !.polines[k].quantity = @ + 1]
    /\ result' = Result("order", [NoArgs EXCEPT !.pk = I(k)], Res(api, Return(None), <<>>))
    /\ UNCHANGED <<api, obj, disk, handles, classes>>

NextOrder ==
    \/ \E location \in {I(3), LocationOne, S(<<"3">>), None}, fault \in OrderFaults :
          ReceiveAll(location, fault)
    \/ \E k \in 1..MaxLines : PoOrderMore(k)

SpecOrder == InitOrder /\ [][NextOrder]_vars

(***************************************************************************)
(* What a caller can do with a line of a sales order: the server holds the *)
(* line and the stock of its part                                          *)
(***************************************************************************)
\* the stock items the part may have
MaxStock == 2

\* what a stock item may start as: <<quantity, allocated>>, in halves
StockShapes == {<<4, 0>>, <<3, 2>>, <<2, 2>>, <<2, 3>>}

\* the stock items of the part on the server
Stocks ==
    UNION {{[i \in 1..n |-> [pk |-> i, quantity |-> f[i][1], allocated |-> f[i][2]]] :
               f \in [1..n -> StockShapes]} : n \in 0..MaxStock}

\* what is left of a stock item on the server, in halves
Left(s) == IF s.quantity > s.allocated THEN s.quantity - s.allocated ELSE 0

RECURSIVE LeftFrom(_, _)
LeftFrom(stock, i) == IF i > Len(stock) THEN 0 ELSE Left(stock[i]) + LeftFrom(stock, i + 1)

\* the StockItem the server sends for s
StockObj(s) ==
    Obj(StockItem, TRUE, ObjUrl(StockItem, I(s.pk)),
        [pk |-> I(s.pk), part |-> I(7), quantity |-> Float(s.quantity),
         allocated |-> Float(s.allocated)])

\* the line of the sales order as the caller has just fetched it
LineObj(srv) ==
    Obj(SalesOrderLineItem, TRUE, ObjUrl(SalesOrderLineItem, I(1)),
        [pk |-> I(1), part |-> I(7), order |-> I(5), quantity |-> Float(srv.soline.quantity),
         allocated |-> Float(srv.soline.allocated),
         available_stock |-> Float(LeftFrom(srv.stock, 1))])

ShipmentRecord == [pk |-> I(9), order |-> I(5)]

ShipmentOne ==
    Obj(SalesOrderShipment, TRUE, ObjUrl(SalesOrderShipment, I(9)), ShipmentRecord)

\* the stock items the caller offers: none (they are fetched), those of the
\* server, or those of the server last first
Offers == {"fetched", "given", "reversed"}

Offer(how, stock) ==
    CASE how = "fetched" -> None
      [] how = "given" -> List([i \in 1..Len(stock) |-> StockObj(stock[i])])
      [] how = "reversed" ->
             List([i \in 1..Len(stock) |-> StockObj(stock[Len(stock) + 1 - i])])

\* the answers of the server to the requests of allocateToShipment
SalesAnswers(srv, fault) ==
    [part |-> Response(200, JSON, Dict([pk |-> I(7), name |-> S(<<"a">>)])),
     stock |-> IF fault = "listing" THEN Response(500, HTML, BadJson)
               ELSE Response(200, JSON,
                             List([i \in 1..Len(srv.stock) |-> Dict(StockObj(srv.stock[i]).data)])),
     order |-> Response(200, JSON, Dict([pk |-> I(5), reference |-> S(<<"a">>)])),
     post |-> IF fault = "rejected" THEN BadRequest
              ELSE Response(201, JSON, Dict([success |-> B(TRUE)])),
     reload |-> Response(200, JSON, Dict(ShipmentRecord))]

\* the POST requests among calls
Posts(calls) == {i \in 1..Len(calls) : calls[i].method = "POST"}

\* the entries of the request that calls posts, none when nothing is posted
Entries(calls) ==
    IF Posts(calls) = {} THEN <<>>
    ELSE calls[CHOOSE i \in Posts(calls) : TRUE].data.d["items"].items

\* the quantity the entries hold for the stock item k, in halves
RECURSIVE AllocatedFor(_, _, _)
AllocatedFor(entries, i, k) ==
    IF i > Len(entries) THEN 0
    ELSE (IF entries[i].d["stock_item"] = I(k) THEN Halves(entries[i].d["quantity"]) ELSE 0)
         + AllocatedFor(entries, i + 1, k)

RECURSIVE SumOf(_, _)
SumOf(entries, i) ==
    IF i > Len(entries) THEN 0 ELSE Halves(entries[i].d["quantity"]) + SumOf(entries, i + 1)

\* the server once it has taken the entries of an allocation
AfterAllocate(srv, entries) ==
    [srv EXCEPT !.stock = [i \in 1..Len(srv.stock) |->
                              [srv.stock[i] EXCEPT !.allocated =
                                   @ + AllocatedFor(entries, 1, srv.stock[i].pk)]],
                !.soline.allocated = @ + SumOf(entries, 1)]

InitSales ==
    /\ \E stock \in Stocks :
          server = [root |-> Response(200, JSON, ServerDetails(I(207))),
                    me |-> Response(200, JSON, Dict([username |-> S(<<"admin">>)])),
                    tok |-> Response(200, JSON, Dict([token |-> S(<<"tokS">>)])),
                    stock |-> stock,
                    soline |-> [quantity |-> 5, allocated |-> 0]]
    /\ api = Built(init(NewApi, server, "valid", S(<<"admin">>), S(<<"pw">>), None,
                        TRUE, TRUE))
    /\ result = Result("none", NoArgs, Res(NewApi, Return(None), <<>>))
    /\ obj = ShipmentOne
    /\ disk = NoDisk
    /\ handles = <<>>
    /\ classes = ClassAttributes

\* the caller's view and the server after allocateToShipment() ended as r
Allocated(args, fault, r) ==
    /\ api' = r.api
    /\ result' = Result("allocateToShipment", args, r)
    /\ obj' = r.obj
    /\ server' = IF fault = "none" THEN AfterAllocate(server, Entries(r.calls)) ELSE server
    /\ UNCHANGED <<disk, handles, classes>>

\* line.allocateToShipment(shipment, stockitems=stockitems, quantity=quantity)
\* on the line as it is on the server
SalesAllocate(how, quantity, fault) ==
    /\ obj.t = "obj"
    /\ Allocated([NoArgs EXCEPT !.T = SalesOrderLineItem.name, !.pk = quantity,
                                !.data = Offer(how, server.stock), !.name = fault],
                 fault,
                 allocateToShipment(LineObj(server), api, server, obj,
                                    Offer(how, server.stock), quantity,
                                    SalesAnswers(server, fault)))

\* the quantities a caller asks for
Quantities == {None, I(1), I(3), I(-1), S(<<"x">>)}

\* what the caller passes and how the server fails: <<stockitems, quantity,
\* fault>>
AllocateInputs ==
    {<<how, quantity, "none">> : how \in Offers, quantity \in Quantities}
    \cup {<<"fetched", None, "listing">>, <<"fetched", None, "rejected">>,
          <<"given", I(1), "rejected">>}

NextSales == \E a \in AllocateInputs : SalesAllocate(a[1], a[2], a[3])

SpecSales == InitSales /\ [][NextSales]_vars

(***************************************************************************)
(* The claims about the transport                                          *)
(***************************************************************************)
\* /api/ answers 200 with details whose apiVersion is missing or below the floor
LowVersion(srv) ==
    /\ srv.root.conn = "ok" /\ srv.root.status = 200 /\ srv.root.body.t = "dict"
    /\ \/ "apiVersion" \notin DOMAIN srv.root.body.d
       \/ /\ srv.root.body.d["apiVersion"].t = "int"
          /\ srv.root.body.d["apiVersion"].v < MIN_SUPPORTED_API_VERSION

\* the last operation ran connect(): __init__ with connect=True, connect()
\* itself, or a request on a transport that was not connected
RanConnect ==
    /\ result.op \in {"__init__", "connect", "request", "get", "post"}
    /\ result.calls # <<>>
    /\ result.calls[1].url = api_url

\* C1: against a server whose /api/ reports an apiVersion below 51, or none,
\* every operation that runs connect() - construction, connect(), the first
\* request() of a transport built with connect=False - raises (connect()
\* raises ConnectionRefusedError while handling testServer()'s ValueError
\* 'older than minimum supported API version'), construction is aborted,
\* connected stays False and the only HTTP call ever sent is the GET of /api/.
C1_VersionGate ==
    LowVersion(server) =>
        /\ ~api.connected
        /\ \A i \in 1..Len(result.calls) :
              result.calls[i].url = api_url /\ result.calls[i].method = "GET"
        /\ result.op \in {"connect", "request", "get", "post"} => RanConnect
        /\ RanConnect =>
              /\ Raised(result.out)
              /\ result.out.err = "ConnectionRefusedError"
              /\ result.out.ctx = [err |-> "ValueError", msg |-> "api_version_too_old"]
        /\ (result.op = "__init__" /\ RanConnect) => api.state = "aborted"

\* a request() on a transport built with connect=False was stopped by the gate
C1_Witness ==
    /\ LowVersion(server)
    /\ result.op = "request"
    /\ RanConnect
    /\ result.out.ctx.msg = "api_version_too_old"
    /\ api.state = "live"

\* the last operation was request()/get()/post() and the HTTP exchange for it
\* completed with a response
Completed(op) == result.op = op /\ result.args.resp.conn = "ok"

\* C2: request() classifies every completed HTTP exchange: a status >= 300
\* raises HTTPError whose detail carries the URL, the verb, the status code
\* and the body, for DELETE too; otherwise a DELETE response is returned as
\* is, and any other response is returned only if its content-type is exactly
\* 'application/json' and raises InvalidJSONError if not.
C2_RequestClassifies ==
    Completed("request") =>
        IF result.args.resp.status >= 300
        THEN /\ Raised(result.out)
             /\ result.out.err = "HTTPError"
             /\ result.out.detail.t = "detail"
             /\ result.out.detail.url = Url(<<"api", "part">>, <<>>)
             /\ result.out.detail.method \in {"GET", "POST", "DELETE"}
             /\ result.out.detail.method = upper(result.args.method)
             /\ result.out.detail.status_code = result.args.resp.status
             /\ result.out.detail.body = result.args.resp.body
        ELSE IF result.args.method = "delete" \/ result.args.resp.ctype = "application/json"
        THEN /\ ~Raised(result.out)
             /\ result.out.val.t = "response"
             /\ result.out.val.r = result.args.resp
        ELSE /\ Raised(result.out)
             /\ result.out.err = "InvalidJSONError"

\* a DELETE answered 300 raised HTTPError with that status in its detail
C2_Witness ==
    /\ Completed("request")
    /\ result.args.method = "delete"
    /\ result.args.resp.status = 300
    /\ Raised(result.out)
    /\ result.out.detail.t = "detail"
    /\ result.out.detail.status_code = 300

\* C3: the transport never reports a failure as a silent None: an
\* unsupported HTTP verb passed to request(), a response body that is not
\* valid JSON read by get(), and a connection failure or timeout in either
\* each end in a raised error, never in a None return value.
C3_NeverSilentNone ==
    (\/ result.op = "request" /\ upper(result.args.method) \notin methods
     \/ result.op = "get" /\ Completed("get") /\ result.args.resp.body.t = "bad"
     \/ result.op \in {"request", "get"} /\ result.args.resp.conn \in {"refused", "read_timeout"})
    => Raised(result.out)

\* the part of C3 that the code keeps: a connection failure or a timeout of
\* the request itself is raised
C3_ConnectionFailureRaises ==
    (result.op \in {"request", "get", "post"} /\ result.args.resp.conn \in {"refused", "read_timeout"})
    => Raised(result.out) /\ result.out.err \in {"ConnectionError", "Timeout"}

\* C4: with token authentication enabled, connect() never returns
\* successfully with the token still unset: it stores the token it obtained
\* with the basic-auth credentials, or raises.
C4_ConnectStoresToken ==
    (RanConnect /\ ~Raised(result.out) /\ api.use_token_auth) => Truthy(api.token)

(***************************************************************************)
(* The claims about the entity classes                                     *)
(***************************************************************************)
\* the class the last operation was called on
LastType == CHOOSE T \in Types : T.name = result.args.T

OnType == result.args.T \in {T.name : T \in Types}

\* the primary key the last constructor went by: the pk argument or, if
\* that is None, the primary-key field of the data
GivenPk ==
    IF result.args.pk.t # "None" THEN result.args.pk
    ELSE IF Truthy(result.args.data) THEN DictGet(result.args.data.d, LastType.pkField, None)
    ELSE None

\* the class is available at the API version of the transport it was given
VersionOk ==
    \/ LastType.MIN_API_VERSION.t = "None"
    \/ /\ result.args.flag
       /\ api.api_version.t = "int"
       /\ api.api_version.v >= LastType.MIN_API_VERSION.v

\* the last constructor raised err, sent nothing and left no object
RaisedUnsent(errs) ==
    /\ Raised(result.out)
    /\ result.out.err \in errs
    /\ result.calls = <<>>
    /\ obj = NoObj

\* C5 as stated: for every entity type, a constructor given a primary key
\* that is not a number raises TypeError and one given a primary key <= 0
\* raises ValueError, from the pk argument or from the data, before any
\* network call and without leaving an object.
C5_BadPkRaisesForEveryType ==
    (result.op = "new" /\ OnType) =>
        /\ GivenPk \in NonNumericPks => RaisedUnsent({"TypeError"})
        /\ GivenPk \in NonPositivePks => RaisedUnsent({"ValueError"})

\* C5, amended: the check is made for the classes whose primary-key field is
\* 'pk', after the check of the API version: there a primary key that is not
\* a number raises TypeError and one <= 0 raises ValueError, from the pk
\* argument or from the data, before any network call and without leaving
\* an object; a class that is not available at the transport's API version
\* raises NotImplementedError (AttributeError without a version) first; a
\* class with another primary-key field (InvenTreePlugin, 'key') never
\* raises these errors for its key.
C5_BadPkRaises ==
    (result.op = "new" /\ OnType) =>
        /\ ~VersionOk => RaisedUnsent({"NotImplementedError", "AttributeError"})
        /\ (VersionOk /\ LastType.pkField = "pk") =>
              /\ GivenPk \in NonNumericPks => RaisedUnsent({"TypeError"})
              /\ GivenPk \in NonPositivePks => RaisedUnsent({"ValueError"})
        /\ (VersionOk /\ LastType.pkField # "pk") =>
              result.out.msg \notin {"invalid_primary_key", "pk_must_be_positive"}

\* Part(api, data={'pk': <a value <= 0>, ...}) raised ValueError
C5_Witness ==
    /\ result.op = "new"
    /\ result.args.T = "Part"
    /\ result.args.pk.t = "None"
    /\ GivenPk \in NonPositivePks
    /\ RaisedUnsent({"ValueError"})

\* C6: a constructor that gets no primary key - pk=None and data that is
\* None, empty or without the primary-key field - raises TypeError or
\* ValueError; it neither returns an object nor goes on to fetch a record.
C6_ConstructionRequiresPk ==
    (result.op = "new" /\ OnType /\ result.args.flag /\ VersionOk /\ GivenPk.t = "None")
    => RaisedUnsent({"TypeError", "ValueError"})

\* the records of a listing, bare or in an envelope
RecordsOf(body) == IF body.t = "list" THEN body.items ELSE body.d["results"].items

\* the answer is a listing: a JSON array, or a JSON object whose results are one
IsListing(resp) ==
    /\ resp.conn = "ok" /\ resp.status = 200 /\ resp.ctype = JSON
    /\ \/ resp.body.t = "list"
       \/ /\ resp.body.t = "dict"
          /\ "results" \in DOMAIN resp.body.d
          /\ resp.body.d["results"].t = "list"

\* the positions in records of the records that have the field
Keyed(records, field) == {i \in 1..Len(records) : field \in DOMAIN records[i].d}

\* the i-th smallest element of a set of numbers
Nth(set, i) == CHOOSE n \in set : Cardinality({m \in set : m <= n}) = i

\* C7: T.list() on a listing - bare, or in the envelope {"results": [...]} -
\* returns exactly one object per record that has the primary-key field, in
\* the order of the answer, each with that record as its data and addressed
\* by that record's key; the records without the field are skipped; so the
\* two shapes give the same objects.  No request is sent for a single record.
C7_ListYieldsKeyedRecords ==
    (result.op = "list" /\ IsListing(result.args.resp)) =>
        /\ ~Raised(result.out)
        /\ Len(result.items) =
              Cardinality(Keyed(RecordsOf(result.args.resp.body), LastType.pkField))
        /\ \A i \in 1..Len(result.items) :
              /\ result.items[i].data =
                    RecordsOf(result.args.resp.body)
                       [Nth(Keyed(RecordsOf(result.args.resp.body), LastType.pkField), i)].d
              /\ result.items[i].type = LastType
              /\ result.items[i].api
              /\ result.items[i].url.segs = LastType.URL
              /\ result.items[i].url.pk = str(result.items[i].data[LastType.pkField])
        /\ \A i \in 1..Len(result.calls) : result.calls[i].url.pk = <<>>

\* an envelope of two records, the first without the primary-key field,
\* gave the one object of the second
C7_Witness ==
    /\ result.op = "list"
    /\ IsListing(result.args.resp)
    /\ result.args.resp.body.t = "dict"
    /\ Len(RecordsOf(result.args.resp.body)) = 2
    /\ "pk" \notin DOMAIN RecordsOf(result.args.resp.body)[1].d
    /\ Len(result.items) = 1
    /\ result.items[1].data = RecordsOf(result.args.resp.body)[2].d

\* C8: T.list() whose request the server answers with an HTTP error status
\* returns an empty list and does not raise, unless raise_error=True was
\* passed: then the HTTPError reaches the caller.
C8_ListSwallowsHTTPError ==
    (result.op = "list" /\ result.args.resp.conn = "ok" /\ result.args.resp.status >= 300) =>
        IF result.args.flag
        THEN /\ Raised(result.out)
             /\ result.out.err = "HTTPError"
             /\ result.out.detail.status_code = result.args.resp.status
        ELSE /\ ~Raised(result.out)
             /\ result.items = <<>>

\* a client whose credentials the server refuses listed the parts, was
\* answered 401 and got the empty list
C8_Witness ==
    /\ result.op = "list"
    /\ server.me = MeDenied
    /\ result.args.resp = MeDenied
    /\ ~result.args.flag
    /\ ~Raised(result.out)
    /\ result.items = <<>>

\* C9 as stated: T.create() never raises when the creation fails on the
\* server - the POST is answered with an error status -: it returns None.
C9_CreateNeverRaises ==
    (result.op = "create" /\ result.args.resp.conn = "ok" /\ result.args.resp.status >= 400)
    => ~Raised(result.out) /\ result.out.val.t = "None" /\ obj = NoObj

\* C9, amended: T.create() returns None, without an object, only when the
\* POST is answered as JSON with a status below 300 that is not 200 or 201,
\* or with a body that is not valid JSON; when the server rejects the
\* creation with a status >= 300, create() raises HTTPError.
C9_CreateFailure ==
    (result.op = "create" /\ result.args.resp.conn = "ok") =>
        /\ result.args.resp.status >= 300 =>
              Raised(result.out) /\ result.out.err = "HTTPError" /\ obj = NoObj
        /\ (/\ result.args.resp.status < 300
            /\ result.args.resp.ctype = JSON
            /\ \/ result.args.resp.status \notin {200, 201}
               \/ result.args.resp.body.t = "bad") =>
              ~Raised(result.out) /\ result.out.val.t = "None" /\ obj = NoObj
        /\ (~Raised(result.out) /\ result.out.val.t = "None") =>
              /\ result.args.resp.status < 300
              /\ result.args.resp.status \notin {200, 201} \/ result.args.resp.body.t = "bad"

\* a create() answered 204 returned None
C9_Witness ==
    /\ result.op = "create"
    /\ result.args.resp.conn = "ok"
    /\ result.args.resp.status = 204
    /\ ~Raised(result.out)
    /\ result.out.val.t = "None"
    /\ obj = NoObj

\* C10: a write that the server rejects with a status >= 300 - create(),
\* as of a part or of a line item of an order, or an adjustment of stock -
\* raises HTTPError, which carries the status, and yields no object.
C10_RejectedWriteRaises ==
    (/\ result.op \in {"create", "adjustStockItems"}
     /\ result.args.resp.conn = "ok"
     /\ result.args.resp.status >= 300) =>
        /\ Raised(result.out)
        /\ result.out.err = "HTTPError"
        /\ result.out.detail.t = "detail"
        /\ result.out.detail.method = "POST"
        /\ result.out.detail.status_code = result.args.resp.status
        /\ result.out.detail.body = result.args.resp.body
        /\ obj = NoObj

\* a count of stock with a quantity the server refuses (400) raised HTTPError
C10_Witness ==
    /\ result.op = "adjustStockItems"
    /\ result.args.resp.status = 400
    /\ Raised(result.out)
    /\ result.out.err = "HTTPError"
    /\ obj = NoObj

(***************************************************************************)
(* The claims about one entity object and the server's records             *)
(***************************************************************************)
\* the last operation returned an object, which the caller holds
YieldedObj(op) == result.op = op /\ ~Raised(result.out) /\ obj # NoObj

\* C11: when create() has returned an object, constructing the class with
\* pk=created.pk right away gives, if it gives an object, one whose data
\* equal the data of the object create() returned.
C11_CreateThenConstruct ==
    [][(/\ YieldedObj("create")
        /\ result'.op = "new"
        /\ result'.args.pk = pkOf(obj).val
        /\ ~Raised(result'.out))
       => (obj' # NoObj /\ obj'.data = obj.data /\ obj'.url = obj.url)]_vars

\* an object was constructed for the key 2, which only create() gives a
\* record, and holds the record
C11_Witness ==
    /\ YieldedObj("new")
    /\ result.args.pk = I(2)
    /\ obj.data = server.db[2].d
    /\ obj.data["reference"] = S(<<"b">>)

\* the record the server keeps for the object the caller holds
OwnRecord == server.db[KeyOf(server.db, obj.url)]

\* the last operation was op on an object and the server answered its request
Answered(op) == result.op = op /\ obj # NoObj /\ result.args.resp.conn = "ok"

\* C12: after save() the data of the object are the server's: when the
\* write succeeds they are the server's answer, and when the server refuses
\* the write they are again the record the server keeps, not the values the
\* caller had assigned or passed.
C12_SaveSynchronizes ==
    (Answered("save") /\ KeyOf(server.db, obj.url) # 0) =>
        /\ result.args.resp.status \in {200, 201} /\ result.args.resp.body.t = "dict" =>
              obj.data = result.args.resp.body.d
        /\ obj.data = OwnRecord.d

\* the step is a save(data) of some fields, by PATCH, that returned
PartialSave ==
    /\ obj # NoObj
    /\ KeyOf(server.db, obj.url) # 0
    /\ result'.op = "save"
    /\ result'.args.method = "PATCH"
    /\ result'.args.data.t = "dict"
    /\ ~Raised(result'.out)

\* the step is a reload() that returned, right after such a save(data)
ReloadAfterSave ==
    /\ result.op = "save"
    /\ result.args.method = "PATCH"
    /\ result.args.data.t = "dict"
    /\ ~Raised(result.out)
    /\ result'.op = "reload"
    /\ ~Raised(result'.out)

ReloadedRecord ==
    /\ result.op = "reload"
    /\ ~Raised(result.out)
    /\ result.args.resp.conn = "ok"
    /\ result.args.resp.body.t = "dict"

FetchedNothing ==
    /\ result.op \in {"new", "reload"}
    /\ Len(result.calls) = 1
    /\ result.args.resp.conn = "ok"
    /\ result.args.resp.status = 200
    /\ result.args.resp.body.t = "bad"

\* C15 as stated: a reload() to which the server returns nothing does not
\* raise - in the constructor of an object built from a pk alone either -
\* and is_valid() then returns False without raising.
C15_ReloadNeverRaises ==
    FetchedNothing =>
        /\ ~Raised(result.out)
        /\ obj # NoObj
        /\ is_valid(obj) = Return(B(FALSE))

\* the step is the field access op, on a field the data has or has not
Accesses(op, present) ==
    /\ obj # NoObj
    /\ result'.op = op
    /\ (result'.args.name \in DOMAIN obj.data) = present

\* C16: obj.name and obj[name] read the data: a field of the data is
\* returned as the data has it (pk through int()), a field absent from it
\* raises AttributeError for obj.name and KeyError for obj[name] and no
\* value is returned; obj[name] = value on an absent field raises KeyError
\* and adds no key; no read and no failed assignment changes the data.
C16_FieldAccess ==
    [][/\ Accesses("getattr", TRUE) =>
            /\ result'.out = Return(obj.data[result'.args.name])
            /\ obj' = obj
       /\ Accesses("getitem", TRUE) =>
            /\ result'.out = Return(obj.data[result'.args.name])
            /\ obj' = obj
       /\ Accesses("getattr", FALSE) =>
            /\ Raised(result'.out) /\ result'.out.err = "AttributeError"
            /\ obj' = obj
       /\ Accesses("getitem", FALSE) =>
            /\ Raised(result'.out) /\ result'.out.err = "KeyError"
            /\ obj' = obj
       /\ Accesses("setitem", FALSE) =>
            /\ Raised(result'.out) /\ result'.out.err = "KeyError"
            /\ obj' = obj]_vars

\* obj['supplier'] = 'b' on an order without that field has raised KeyError
C16_Witness ==
    /\ result.op = "setitem"
    /\ result.args.name = "supplier"
    /\ obj # NoObj
    /\ "supplier" \notin DOMAIN obj.data
    /\ DOMAIN obj.data = {"pk", "reference", "description", "status"}
    /\ Raised(result.out)
    /\ result.out.err = "KeyError"

\* the last operation was a delete() that the server carried out
DeletedRecord ==
    /\ result.op = "delete"
    /\ ~Raised(result.out)
    /\ result.args.resp.conn = "ok"
    /\ result.args.resp.status = 204

\* C17: delete() sends one request, a DELETE to the URL of the object's own
\* record; an answer below 300 is returned as it came; the object is as it
\* was.  A reload() right after a delete() the server carried out, when
\* the server answers it, raises HTTPError and the data are still those
\* from before the delete.
C17_DeleteKeepsObject ==
    [][/\ (obj # NoObj /\ result'.op = "delete") =>
            /\ Len(result'.calls) = 1
            /\ result'.calls[1].method = "DELETE"
            /\ result'.calls[1].url = constructApiUrl(obj.url)
            /\ obj' = obj
            /\ (result'.args.resp.conn = "ok" /\ result'.args.resp.status < 300) =>
                    result'.out = Return([t |-> "response", r |-> result'.args.resp])
       /\ (DeletedRecord /\ result'.op = "reload" /\ result'.args.resp.conn = "ok") =>
            /\ Raised(result'.out)
            /\ result'.out.err = "HTTPError"
            /\ obj' = obj
            /\ obj'.data # EmptyDict.d]_vars

\* a reload() of a deleted order has been answered 404 and has raised; the
\* object still has its fields
C17_Witness ==
    /\ result.op = "reload"
    /\ obj # NoObj
    /\ KeyOf(server.db, obj.url) = 0
    /\ result.args.resp.status = 404
    /\ Raised(result.out)
    /\ result.out.err = "HTTPError"
    /\ "reference" \in DOMAIN obj.data

\* C20: _statusupdate with a status that is none of complete, cancel, hold,
\* ship, issue, finish raises ValueError, sends no request and leaves the
\* object - and the server's records - as they were.
C20_UnknownStatusRaises ==
    [][(/\ obj # NoObj
        /\ result'.op = "_statusupdate"
        /\ result'.args.method \notin {"complete", "cancel", "hold", "ship", "issue", "finish"})
       => (/\ Raised(result'.out)
           /\ result'.out.err = "ValueError"
           /\ result'.calls = <<>>
           /\ obj' = obj
           /\ server' = server)]_vars

\* _statusupdate('teleport') on an order the server has raised ValueError
C20_Witness ==
    /\ result.op = "_statusupdate"
    /\ result.args.method = "teleport"
    /\ obj # NoObj
    /\ KeyOf(server.db, obj.url) # 0
    /\ Raised(result.out)
    /\ result.out.err = "ValueError"
    /\ result.calls = <<>>

(***************************************************************************)
(* The claims about downloadFile                                           *)
(***************************************************************************)
\* the step is a downloadFile
DownloadStep == result'.op = "downloadFile"

\* the file that step is to write, as the files are before it
Target == destinationOf(disk, result'.args.endpoint, result'.args.dest)

\* the step's GET is answered with a file: below 300 and not HTML
AnsweredFile ==
    /\ result'.args.resp.conn = "ok"
    /\ result'.args.resp.status < 300
    /\ ~containsHtml(result'.args.resp.ctype)

\* C18: downloadFile to a destination that exists, without overwrite=True,
\* raises FileExistsError, sends no request and leaves the files as they
\* are - so does the second of two downloads to one destination -, while
\* with overwrite=True the GET is sent and a file it answers replaces the
\* existing one.
C18_ExistingDestination ==
    [][/\ (DownloadStep /\ exists(disk, Target) /\ ~result'.args.flag) =>
            /\ Raised(result'.out)
            /\ result'.out.err = "FileExistsError"
            /\ result'.calls = <<>>
            /\ disk' = disk
       /\ (/\ result.op = "downloadFile" /\ result.out = Return(B(TRUE))
           /\ DownloadStep /\ ~result'.args.flag
           /\ result'.args.endpoint = result.args.endpoint
           /\ result'.args.dest = result.args.dest) =>
            /\ Raised(result'.out)
            /\ result'.out.err = "FileExistsError"
            /\ disk' = disk
       /\ (DownloadStep /\ exists(disk, Target) /\ result'.args.flag) =>
            /\ Len(result'.calls) = 1
            /\ result'.calls[1].method = "GET"
            /\ (AnsweredFile /\ ~isdir(disk, Target)) =>
                    /\ result'.out = Return(B(TRUE))
                    /\ disk'[Target] = File(result'.args.resp.body.s)]_vars

\* a second download to out.pdf, without overwrite, has raised
\* FileExistsError; out.pdf is the file the first download wrote
C18_Witness ==
    /\ result.op = "downloadFile"
    /\ result.args.dest = <<"out.pdf">>
    /\ ~result.args.flag
    /\ Raised(result.out)
    /\ result.out.err = "FileExistsError"
    /\ result.calls = <<>>
    /\ disk[OutPdf] = File(<<"new">>)

\* C19: a downloadFile whose GET is answered with an HTML content type does
\* not return True and leaves every file as it was: none is created, none
\* is modified, with overwrite=True on an existing file too.
C19_HtmlNotSaved ==
    [][(/\ DownloadStep
        /\ result'.args.resp.conn = "ok"
        /\ result'.args.resp.ctype \in {"text/html", "text/html; charset=utf-8"})
       => (/\ result'.out # Return(B(TRUE))
           /\ disk' = disk)]_vars

\* downloadFile to the existing out.pdf with overwrite=True was answered
\* with a login page: it returned False and out.pdf is the old file
C19_Witness ==
    /\ result.op = "downloadFile"
    /\ result.args.dest = <<"out.pdf">>
    /\ result.args.flag
    /\ result.args.resp = Response(200, "text/html; charset=utf-8", LoginPage)
    /\ result.out = Return(B(FALSE))
    /\ disk[OutPdf] = File(<<"old">>)
    /\ disk[PartPdf] = NoFile

(***************************************************************************)
(* The claims about the operations of the entity classes                   *)
(***************************************************************************)
\* the step is a status action of the vocabulary, with the reload it does
\* by default, on an order that has its key
StatusStep ==
    /\ obj # NoObj
    /\ ~Raised(pkOf(obj))
    /\ result'.op = "_statusupdate"
    /\ result'.args.method \in Statuses
    /\ result'.args.flag

\* C21: a status action first POSTs to <URL>/<pk>/<action>; when the server
\* accepts it the object reloads, so that its data are the server's record
\* after the transition; when the server rejects it the call raises
\* HTTPError, the POST is the only request and the data are unchanged.
C21_StatusActionReloads ==
    [][StatusStep =>
        /\ result'.calls # <<>>
        /\ result'.calls[1].method = "POST"
        /\ result'.calls[1].url =
               constructApiUrl(StatusUrl(obj.type, pkOf(obj).val, result'.args.method))
        /\ (result'.args.resp.conn = "ok" /\ result'.args.resp.status \in {200, 201}) =>
               /\ Len(result'.calls) = 2
               /\ result'.calls[2].method = "GET"
               /\ result'.calls[2].url = constructApiUrl(obj.url)
               /\ ~Raised(result'.out)
               /\ obj'.data = server'.db[KeyOf(server.db, obj.url)].d
        /\ (result'.args.resp.conn = "ok" /\ result'.args.resp.status >= 300) =>
               /\ Raised(result'.out)
               /\ result'.out.err = "HTTPError"
               /\ Len(result'.calls) = 1
               /\ obj' = obj]_vars

\* complete() has returned: the order is complete on the server and in the
\* object, which was pending before
C21_Witness ==
    /\ result.op = "_statusupdate"
    /\ result.args.method = "complete"
    /\ result.args.flag
    /\ ~Raised(result.out)
    /\ Len(result.calls) = 2
    /\ obj # NoObj
    /\ obj.data["status"] = COMPLETE
    /\ obj.data = OwnRecord.d

\* C22 as stated: upload() on an attachment class that declares
\* REQUIRED_KWARGS, called without one of them, raises ValueError and sends
\* no request.
C22_RequiredKwargs ==
    (result.op = "upload" /\ result.args.T = PartAttachment.name
        /\ ~(PartAttachment.REQUIRED_KWARGS \subseteq DOMAIN result.args.data.d)) =>
        /\ Raised(result.out)
        /\ result.out.err = "ValueError"
        /\ result.calls = <<>>

\* the last operation was one of the uploads
Uploaded == result.op \in {"upload", "upload_result", "label_create"}

\* C23 as stated: when an upload has returned or raised, no file that it
\* opened is open.
C23_HandlesReleased == Uploaded => handles = <<>>

\* C27 as stated: after a template create() has returned or raised, the
\* MIN_API_VERSION of the class is the one it is defined with, so that
\* list() on a server older than that version raises NotImplementedError
\* as it does before any create().
C27_MinVersionRestored ==
    /\ classes = ClassAttributes
    /\ (/\ result.op = "list" /\ result.args.T = LabelTemplate.name
        /\ api.api_version.v < LabelTemplate.MIN_API_VERSION.v) =>
            (Raised(result.out) /\ result.out.err = "NotImplementedError")

\* C26 as stated: printLabelLegacy with a template id, no plugin and no
\* destination returns without raising and downloads nothing, on every API
\* version - given that the server, where it is asked, answers the request
\* with a JSON object.
C26_NothingToDo ==
    (/\ result.op = "printLabelLegacy"
     /\ result.args.pk = I(1) /\ result.args.data = None /\ ~result.args.flag
     /\ (result.calls = <<>> \/ (result.args.resp.status = 200
                                  /\ result.args.resp.body.t = "dict"))) =>
        /\ ~Raised(result.out)
        /\ Len(result.calls) <= 1

\* the last call of the operation is the POST to stock/1/install/
InstallPosted ==
    /\ result.calls # <<>>
    /\ result.calls[Len(result.calls)].method = "POST"
    /\ result.calls[Len(result.calls)].url = constructApiUrl(InstallUrl(I(1)))

\* the quantity the caller means: the explicit one, else the installed
\* StockItem's, else 1
InstallMeant ==
    IF "quantity" \in DOMAIN result.args.data.d THEN result.args.data.d["quantity"]
    ELSE IF result.args.pk.t = "obj" THEN result.args.pk.data["quantity"]
    ELSE I(1)

\* C28: every installStock() posts the install request; below API version
\* 148 the posted data has no 'quantity', from 148 on it has the explicit
\* quantity, else the installed StockItem's quantity, else 1
C28_InstallPosts ==
    result.op = "installStock" =>
        /\ InstallPosted
        /\ IF api.api_version.v < 148
           THEN "quantity" \notin DOMAIN result.calls[Len(result.calls)].data.d
           ELSE /\ "quantity" \in DOMAIN result.calls[Len(result.calls)].data.d
                /\ result.calls[Len(result.calls)].data.d["quantity"] = InstallMeant

(***************************************************************************)
(* The claims about the orders                                             *)
(***************************************************************************)
\* the line items of the server that are outstanding, in their order
Outstanding(lines) == SelectSeq(lines, LAMBDA l : l.received < l.quantity)

\* the step is a receiveAll() whose location is valid and whose listing of
\* the line items was answered
ReceiveStep ==
    /\ result'.op = "receiveAll"
    /\ result'.args.pk # None
    /\ result'.args.name # "listing"

\* the receive request among the calls of the step, if one was sent
ReceiveSent == Len(result'.calls) >= 2 /\ result'.calls[2].method = "POST"

\* C25: receiveAll() posts exactly one entry for each line item whose
\* received quantity is below the ordered one, with the outstanding amount
\* as its quantity; with no such line item it returns None and sends no
\* receive request - as it does once everything has been received
C25_ReceiveAllOutstanding ==
    [][ReceiveStep =>
           IF Outstanding(server.polines) = <<>>
           THEN /\ result'.out = Return(None)
                /\ \A i \in 1..Len(result'.calls) : result'.calls[i].method # "POST"
           ELSE /\ ReceiveSent
                /\ result'.calls[2].url = constructApiUrl(ReceiveUrl(I(1)))
                /\ Len(result'.calls[2].data.d["items"].items)
                       = Len(Outstanding(server.polines))
                /\ \A i \in 1..Len(Outstanding(server.polines)) :
                      /\ result'.calls[2].data.d["items"].items[i].d["line_item"]
                             = I(Outstanding(server.polines)[i].pk)
                      /\ Halves(result'.calls[2].data.d["items"].items[i].d["quantity"])
                             = Outstanding(server.polines)[i].quantity
                               - Outstanding(server.polines)[i].received]_vars

\* a receiveAll() has posted one entry although the order has two line
\* items, and has left nothing outstanding
C25_Witness ==
    /\ result.op = "receiveAll"
    /\ Len(result.calls) = 3
    /\ Len(result.calls[2].data.d["items"].items) = 1
    /\ Len(server.polines) = 2
    /\ Outstanding(server.polines) = <<>>

\* the step is an allocateToShipment() that got its stock items and whose
\* quantity is left out or an integer
AllocateStep ==
    /\ result'.op = "allocateToShipment"
    /\ result'.args.name # "listing"
    /\ result'.args.pk.t \in {"None", "int"}

\* the stock items the step offers, in their order
Offered ==
    IF result'.args.data.t = "None"
    THEN [i \in 1..Len(server.stock) |-> StockObj(server.stock[i])]
    ELSE result'.args.data.items

\* the unallocated amount of a stock item, in halves
Unallocated(si) == Halves(si.data["quantity"]) - Halves(si.data["allocated"])

\* the unallocated amount of the stock items that have one
RECURSIVE TotalUnallocated(_, _)
TotalUnallocated(items, i) ==
    IF i > Len(items) THEN 0
    ELSE (IF Unallocated(items[i]) > 0 THEN Unallocated(items[i]) ELSE 0)
         + TotalUnallocated(items, i + 1)

Smaller(x, y) == IF x < y THEN x ELSE y

\* the required amount of the step, in halves: the given quantity, else
\* min(line quantity - line allocated, available stock)
Required ==
    IF result'.args.pk.t = "None"
    THEN Smaller(server.soline.quantity - server.soline.allocated, LeftFrom(server.stock, 1))
    ELSE 2 * result'.args.pk.v

\* where the stock item with the key k stands among the offered ones
PlaceOf(k) == CHOOSE i \in 1..Len(Offered) : Offered[i].data["pk"] = k

\* the entries follow the order of the offered stock items, each is at most
\* what its stock item has unallocated, no stock item without an
\* unallocated amount has one, and all but the last take all there is
GreedyEntries(entries) ==
    /\ \A i \in 1..Len(entries) :
          /\ \E j \in 1..Len(Offered) : Offered[j].data["pk"] = entries[i].d["stock_item"]
          /\ Unallocated(Offered[PlaceOf(entries[i].d["stock_item"])]) > 0
          /\ Halves(entries[i].d["quantity"])
                 <= Unallocated(Offered[PlaceOf(entries[i].d["stock_item"])])
          /\ i < Len(entries) =>
                /\ Halves(entries[i].d["quantity"])
                       = Unallocated(Offered[PlaceOf(entries[i].d["stock_item"])])
                /\ PlaceOf(entries[i].d["stock_item"])
                       < PlaceOf(entries[i + 1].d["stock_item"])

\* without an entry nothing is posted and None is returned
NoneWithoutEntry ==
    Entries(result'.calls) = <<>> =>
        /\ Posts(result'.calls) = {}
        /\ result'.out = Return(None)

\* C24: allocateToShipment allocates greedily in the order of the offered
\* stock items: every entry has a quantity of at least 1 and at most the
\* unallocated amount of its stock item, stock items with nothing
\* unallocated have no entry, the quantities sum to min(required amount,
\* total unallocated amount), and without an entry nothing is posted and
\* None is returned
C24_GreedyAllocation ==
    [][AllocateStep =>
           /\ GreedyEntries(Entries(result'.calls))
           /\ \A i \in 1..Len(Entries(result'.calls)) :
                 Halves(Entries(result'.calls)[i].d["quantity"]) >= 2
           /\ SumOf(Entries(result'.calls), 1)
                  = Smaller(Required, TotalUnallocated(Offered, 1))
           /\ NoneWithoutEntry]_vars

\* C24, as the code has it: every entry has a quantity above 0, which is
\* below 1 when less than one unit is left or required, and the quantities
\* sum to min(required amount, total unallocated amount) when that is above
\* 0 and to nothing otherwise
C24_GreedyAboveZero ==
    [][AllocateStep =>
           /\ GreedyEntries(Entries(result'.calls))
           /\ \A i \in 1..Len(Entries(result'.calls)) :
                 Halves(Entries(result'.calls)[i].d["quantity"]) > 0
           /\ SumOf(Entries(result'.calls), 1)
                  = IF Smaller(Required, TotalUnallocated(Offered, 1)) > 0
                    THEN Smaller(Required, TotalUnallocated(Offered, 1)) ELSE 0
           /\ NoneWithoutEntry]_vars

\* an allocateToShipment() without a quantity has posted two entries, the
\* second for half a unit
C24_Witness ==
    /\ result.op = "allocateToShipment"
    /\ result.args.pk = None
    /\ Len(Entries(result.calls)) = 2
    /\ Halves(Entries(result.calls)[2].d["quantity"]) = 1

(***************************************************************************)
(* The claims about the connection and the record URL                      *)
(***************************************************************************)
\* C29: connected is True only after a connect() that completed without
\* raising: whenever connect() has raised, connected is False afterwards
C29_ConnectedOnlyAfterConnect ==
    (result.op = "connect" /\ Raised(result.out)) => ~api.connected

\* C30: the record URL of an object addresses the primary key that its pk
\* property reports, also when the constructor got both a pk and data and
\* when the answer to a save() carries another primary key
C30_UrlAddressesPk ==
    (obj.t = "obj" /\ obj.type.pkField \in DOMAIN obj.data /\ ~Raised(pkOf(obj))) =>
        obj.url = ObjUrl(obj.type, pkOf(obj).val)

====
